---- MODULE Spec2Model ----
(***************************************************************************)
(* Order ledger of the WaiterAI restaurant assistant (src/src/queries.py): *)
(* stock accounting, order item status machine, status refresh daemon,     *)
(* payment and the archival sweep.                                         *)
(***************************************************************************)
EXTENDS Integers, Sequences, FiniteSets, TLC

(***************************************************************************)
(* Bounds of the model.                                                    *)
(***************************************************************************)
\* largest number of order_items rows ever inserted
MaxItems == 2
\* largest quantity a caller asks for
MaxQty == 2
\* number of request handlers that run concurrently
MaxProcs == 2
\* seed stock of every offering
InitialStock == 2

\* the longest list of ingredient names one request carries
MaxRequested == 3

\* timedelta(minutes=1), in minutes
OneMinute == 1

(***************************************************************************)
(* Text.  A string is a sequence of one-character strings, so that the     *)
(* normalisation of ingredient names is computed, not assumed.             *)
(***************************************************************************)
UpperChars == <<"A","B","C","D","E","F","G","H","I","J","K","L","M",
                "N","O","P","Q","R","S","T","U","V","W","X","Y","Z">>

LowerChars == <<"a","b","c","d","e","f","g","h","i","j","k","l","m",
                "n","o","p","q","r","s","t","u","v","w","x","y","z">>

\* the characters the regular expression class \s matches
Whitespace == {" ", "\t", "\n"}

SetMin(S) == CHOOSE x \in S : \A y \in S : x <= y

SetMax(S) == CHOOSE x \in S : \A y \in S : y <= x

\* str.lower() on one character
lowerChar(c) ==
  IF \E i \in 1..Len(UpperChars) : UpperChars[i] = c
  THEN LowerChars[CHOOSE i \in 1..Len(UpperChars) : UpperChars[i] = c]
  ELSE c

\* str.lower()
lower(s) == [i \in 1..Len(s) |-> lowerChar(s[i])]

\* str.strip()
strip(s) ==
  LET idx == {i \in 1..Len(s) : s[i] \notin Whitespace}
  IN IF idx = {} THEN <<>> ELSE SubSeq(s, SetMin(idx), SetMax(idx))

\* re.sub(r"\s+", " ", s): every maximal run of whitespace becomes one space
collapseWhitespace(s) ==
  LET F[i \in 0..Len(s)] ==
        IF i = 0 THEN <<>>
        ELSE IF s[i] \notin Whitespace THEN Append(F[i-1], s[i])
        ELSE IF i = 1 \/ s[i-1] \notin Whitespace THEN Append(F[i-1], " ")
        ELSE F[i-1]
  IN F[Len(s)]

\* variant: the name is trimmed and collapsed but its case is kept
_normalize_ingredient_name_CaseSensitive(value) == collapseWhitespace(strip(value))

_normalize_ingredient_name(value) == collapseWhitespace(lower(strip(value)))

(***************************************************************************)
(* Catalog (seed data, provisioned out of band and read-only here).        *)
(***************************************************************************)
Offerings == {1, 2}

OfferingName == [o \in Offerings |-> IF o = 1 THEN "Margherita" ELSE "Cola"]

Onions == <<"O","n","i","o","n","s">>

Basil == <<"B","a","s","i","l">>

OliveOil == <<"O","l","i","v","e"," ","O","i","l">>

\* Offering.ingredients: the OfferingIngredient rows of an offering, each
\* with its Ingredient's id and name and the is_removable flag
OfferingIngredients(o) ==
  IF o = 1
  THEN << [ingredient_id |-> 1, name |-> Onions,   is_removable |-> TRUE],
          [ingredient_id |-> 2, name |-> Basil,    is_removable |-> FALSE],
          [ingredient_id |-> 3, name |-> OliveOil, is_removable |-> TRUE] >>
  ELSE << >>

OrderIds == {1, 2}

\* the order of a session that serves one table
OneOrder == {1}

Statuses == {"pending", "preparing", "served", "paid", "cancelled",
             "paid-completed", "cancelled-completed"}

(***************************************************************************)
(* Ingredient-exclusion resolver.                                          *)
(***************************************************************************)
\* ingredient_lookup.get(normalized): the association of the offering whose
\* normalised ingredient name is `normalized` (the dict comprehension keeps
\* the last one), as a set of at most one association
ingredient_lookup(offering, normalized) ==
  LET assocs == OfferingIngredients(offering)
      hits == {i \in 1..Len(assocs) :
                 _normalize_ingredient_name(assocs[i].name) = normalized}
  IN IF hits = {} THEN {} ELSE {assocs[SetMax(hits)]}

\* variant: the is_removable flag of the association is not looked at
classifyStep_IgnoresLock(offering, acc, ingredient_name) ==
  LET cleaned_name == strip(ingredient_name)
      normalized == _normalize_ingredient_name(cleaned_name)
      found == ingredient_lookup(offering, normalized)
  IN IF cleaned_name = <<>> \/ normalized = <<>> THEN acc
     ELSE IF found = {}
       THEN [acc EXCEPT !.missing = Append(@, cleaned_name)]
     ELSE LET assoc == CHOOSE a \in found : TRUE
          IN IF assoc.ingredient_id \in acc.seen THEN acc
             ELSE [acc EXCEPT !.seen = @ \cup {assoc.ingredient_id},
                              !.removable = Append(@, assoc)]

\* One iteration of the loop of _classify_removal_requests over the
\* accumulator acc = [removable, missing, locked, seen]
classifyStep(offering, acc, ingredient_name) ==
  LET cleaned_name == strip(ingredient_name)
      normalized == _normalize_ingredient_name(cleaned_name)
      found == ingredient_lookup(offering, normalized)
  IN IF cleaned_name = <<>> \/ normalized = <<>> THEN acc
     ELSE IF found = {}
       THEN [acc EXCEPT !.missing = Append(@, cleaned_name)]
     ELSE LET assoc == CHOOSE a \in found : TRUE
          IN IF ~assoc.is_removable
               THEN [acc EXCEPT !.locked = Append(@, assoc.name)]
             ELSE IF assoc.ingredient_id \in acc.seen THEN acc
             ELSE [acc EXCEPT !.seen = @ \cup {assoc.ingredient_id},
                              !.removable = Append(@, assoc)]

_classify_removal_requests(offering, ingredients_to_exclude) ==
  LET F[i \in 0..Len(ingredients_to_exclude)] ==
        IF i = 0
        THEN [removable |-> <<>>, missing |-> <<>>, locked |-> <<>>, seen |-> {}]
        ELSE classifyStep(offering, F[i-1], ingredients_to_exclude[i])
      r == F[Len(ingredients_to_exclude)]
  IN [removable |-> r.removable, missing |-> r.missing, locked |-> r.locked]

(***************************************************************************)
(* Inference of exclusions from free-text instructions.                    *)
(***************************************************************************)
Letters == {LowerChars[i] : i \in 1..Len(LowerChars)}

Digits == {"0","1","2","3","4","5","6","7","8","9"}

\* the regular expression class \w, on lower-cased text
WordChars == Letters \cup Digits \cup {"_"}

\* the class [a-z\s,'-] of the captured phrase
PhraseChars == Letters \cup Whitespace \cup {",", "'", "-"}

\* the class [a-z'] of a token
TokenChars == Letters \cup {"'"}

\* the keywords of the three patterns, in the order the code tries them
ExclusionKeywords == << <<"w","i","t","h","o","u","t">>, <<"n","o">>, <<"h","o","l","d">> >>

\* the words the captured phrase is cut at (besides . , !)
StopWords == { <<"a","n","d">>, <<"p","l","e","a","s","e">>,
               <<"w","i","t","h">>, <<"t","h","a","n","k","s">> }

startsWith(text, pos, word) ==
  /\ pos + Len(word) - 1 <= Len(text)
  /\ SubSeq(text, pos, pos + Len(word) - 1) = word

\* length of the longest run of characters of S that starts at pos
runLen(text, pos, S) ==
  LET bad == {i \in pos..Len(text) : text[i] \notin S}
  IN IF bad = {} THEN Len(text) - pos + 1 ELSE SetMin(bad) - pos

\* keyword\s+([a-z\s,'-]+) matched at `start`: \s+ is greedy and gives one
\* whitespace back when nothing else is left for the group
patternMatch(text, start, keyword) ==
  LET p == start + Len(keyword)
      w == runLen(text, p, Whitespace)
      l == runLen(text, p, PhraseChars)
  IN [ok    |-> startsWith(text, start, keyword) /\ w >= 1 /\ l >= 2,
      group |-> SubSeq(text, p + (IF l > w THEN w ELSE w - 1), p + l - 1),
      end   |-> p + l]

\* re.finditer(pattern, text): group(1) of the non-overlapping matches
RECURSIVE finditer(_, _, _)
finditer(text, keyword, pos) ==
  IF pos > Len(text) THEN <<>>
  ELSE LET m == patternMatch(text, pos, keyword)
       IN IF m.ok THEN <<m.group>> \o finditer(text, keyword, m.end)
          ELSE finditer(text, keyword, pos + 1)

\* re.split(r"(?:\band\b|\bplease\b|\bwith\b|\bthanks\b|\.|,|!)", fragment)[0]
truncateFragment(fragment) ==
  LET wordAt(i) ==
        \E sw \in StopWords :
          /\ startsWith(fragment, i, sw)
          /\ (i = 1 \/ fragment[i-1] \notin WordChars)
          /\ (i + Len(sw) > Len(fragment) \/ fragment[i + Len(sw)] \notin WordChars)
      seps == {i \in 1..Len(fragment) : fragment[i] \in {".", ",", "!"} \/ wordAt(i)}
  IN IF seps = {} THEN fragment ELSE SubSeq(fragment, 1, SetMin(seps) - 1)

\* the phrases one pattern contributes (lines 142-149)
RECURSIVE keepPhrases(_)
keepPhrases(groups) ==
  IF groups = <<>> THEN <<>>
  ELSE LET fragment == strip(Head(groups))
           cut == strip(truncateFragment(fragment))
       IN (IF fragment # <<>> /\ cut # <<>> THEN <<cut>> ELSE <<>>)
          \o keepPhrases(Tail(groups))

\* set(re.findall(r"[a-z']+", s))
tokens(s) ==
  {SubSeq(s, i, j) : <<i, j>> \in
     {ij \in (1..Len(s)) \X (1..Len(s)) :
        /\ ij[1] <= ij[2]
        /\ \A k \in ij[1]..ij[2] : s[k] \in TokenChars
        /\ (ij[1] = 1 \/ s[ij[1] - 1] \notin TokenChars)
        /\ (ij[2] = Len(s) \/ s[ij[2] + 1] \notin TokenChars)}}

\* "Deduplicate while preserving order" (lines 170-177)
RECURSIVE ordered_unique(_, _)
ordered_unique(names, seen) ==
  IF names = <<>> THEN <<>>
  ELSE IF Head(names) \in seen THEN ordered_unique(Tail(names), seen)
  ELSE <<Head(names)>> \o ordered_unique(Tail(names), seen \cup {Head(names)})

_infer_removable_ingredients(offering, special_instructions) ==
  IF special_instructions = <<>> THEN <<>>
  ELSE
    LET text == lower(special_instructions)
        phrases == keepPhrases(finditer(text, ExclusionKeywords[1], 1))
                   \o keepPhrases(finditer(text, ExclusionKeywords[2], 1))
                   \o keepPhrases(finditer(text, ExclusionKeywords[3], 1))
        assocs == OfferingIngredients(offering)
        hit(assoc) ==
          /\ assoc.is_removable
          /\ \E i \in 1..Len(phrases) :
               tokens(lower(assoc.name)) \cap tokens(lower(phrases[i])) # {}
        R[i \in 0..Len(assocs)] ==
          IF i = 0 THEN <<>>
          ELSE IF hit(assocs[i]) THEN Append(R[i-1], assocs[i].name)
          ELSE R[i-1]
    IN IF phrases = <<>> THEN <<>> ELSE ordered_unique(R[Len(assocs)], {})

(***************************************************************************)
(* Inputs the callers draw from.                                           *)
(***************************************************************************)
\* "Tiramisu" names no offering
ItemNames == {"Margherita", "Cola", "Tiramisu"}

\* quantities are unvalidated integers (tool_wrappers.wrap_place_order)
QuantityInputs == -1..MaxQty

\* the quantities the interface documents for placeOrder
PositiveQuantities == 1..MaxQty

NoOnionsPlease == <<"n","o"," ","o","n","i","o","n","s"," ","p","l","e","a","s","e">>

\* a call without special instructions and without exclusions
PlainInput == [special_instructions |-> <<>>, ingredients_to_exclude |-> <<>>]

\* (special_instructions, ingredients_to_exclude) pairs; <<>> is None / empty
PlaceInputs ==
  { PlainInput,
    [special_instructions |-> NoOnionsPlease, ingredients_to_exclude |-> <<>>],
    [special_instructions |-> NoOnionsPlease,
     ingredients_to_exclude |->
       << <<"O","L","I","V","E"," "," ","o","i","l">>, Basil, <<"h","a","m">> >>] }

\* item_names of payment: {} is None / empty, otherwise the listed names
ItemNameFilters == {{}, {"Margherita"}, {"Cola"}}

\* an optional value is a set of at most one element
None == {}

Some(x) == {x}

The(S) == CHOOSE x \in S : TRUE

(***************************************************************************)
(* Return values: an f-string is modelled by its kind and the values it    *)
(* interpolates.                                                           *)
(***************************************************************************)
ValueError(what, key) == [kind |-> "ValueError", what |-> what, key |-> key]

(***************************************************************************)
(* State.                                                                  *)
(*                                                                         *)
(* Time.  Both timestamp columns of an order item default to now() on      *)
(* insert and sys_update_date is stamped again by every UPDATE of the row, *)
(* so the reference time of refresh_order_statuses (line 237) is always    *)
(* the last stamp.  The code reads it only in                              *)
(* now - reference_time >= timedelta(minutes=1), so each row keeps that    *)
(* difference, since_update, in whole minutes and saturating at OneMinute. *)
(* The store's clock and the daemon's clock are taken to agree.            *)
(***************************************************************************)
VARIABLES
  offering_quantity,   \* Offering.quantity of every offering
  order_items,         \* the order_items table; order_item_id is the index
  modifications,       \* the order_item_modifications table
  txn,                 \* the open transaction of every concurrent handler
  credited,            \* history: how often each item's quantity was added back to stock
  paid_marks,          \* history: how often each item was set to paid
  last                 \* history: the most recent call and what it returned

vars == <<offering_quantity, order_items, modifications, txn, credited, paid_marks, last>>

Procs == 1..MaxProcs

ItemIds == 1..Len(order_items)

Idle == [pc |-> "idle"]

Init ==
  /\ offering_quantity = [o \in Offerings |-> InitialStock]
  /\ order_items = <<>>
  /\ modifications = <<>>
  /\ txn = [p \in Procs |-> Idle]
  /\ credited = <<>>
  /\ paid_marks = <<>>
  /\ last = [op |-> "none"]

\* a history counter that stops at 2 ("more than once")
Bump(n) == IF n < 2 THEN n + 1 ELSE n

(***************************************************************************)
(* The decisions and arithmetic of the handlers.                           *)
(***************************************************************************)
\* variant: a placement that takes all of the stock is refused too
InsufficientStock_Strict(stock, quantity) == stock <= quantity

\* variant: the stock check lets one unit too many through
InsufficientStock_OffByOne(stock, quantity) == stock + 1 < quantity

\* placeOrder, line 337: offering.quantity < quantity
InsufficientStock(stock, quantity) == stock < quantity

\* placeOrder, line 365: offering.quantity -= quantity
StockAfterPlace(stock, quantity) == stock - quantity

\* variant: every item can be cancelled, whatever its status
Cancellable_Always(order_status) == TRUE

\* variant: an item in preparation can be cancelled too
Cancellable_WhilePreparing(order_status) == order_status \in {"pending", "preparing"}

\* cancel_order_item, line 410: only a pending item is cancelled
Cancellable(order_status) == order_status = "pending"

\* variant: a cancellation that does not give the quantity back
StockAfterCancel_NoRestore(stock, quantity) == stock

\* cancel_order_item, line 415: order_item.offering.quantity += order_item.quantity
StockAfterCancel(stock, quantity) == stock + quantity

\* session.query(Offering).filter(Offering.name == item_name): the rows that
\* match; .first() takes one of them (no ORDER BY)
OfferingsNamed(item_name) == {o \in Offerings : OfferingName[o] = item_name}

\* the OrderItem row placeOrder inserts (server defaults: pending, now(), now())
NewOrderItem(order_id, offering, quantity, special_instructions) ==
  [order_id |-> order_id, offering_id |-> offering, quantity |-> quantity,
   special_instructions |-> special_instructions, order_status |-> "pending",
   since_update |-> 0]

\* the OrderItemModification rows placeOrder inserts, one per removable association
NewModifications(order_item_id, removable_assocs) ==
  [i \in 1..Len(removable_assocs) |->
     [order_item_id |-> order_item_id,
      ingredient_id_to_remove |-> removable_assocs[i].ingredient_id]]

AssocNames(assocs) == [i \in 1..Len(assocs) |-> assocs[i].name]

\* placeOrder, lines 323-353: the explicit list when there is one, the
\* inference from special_instructions otherwise, then the classification
\* variant: the names inferred from the instructions are added to the list
ResolveExclusions_AlwaysInfers(offering, special_instructions, ingredients_to_exclude) ==
  _classify_removal_requests(offering,
    ingredients_to_exclude \o
      _infer_removable_ingredients(offering, special_instructions))

ResolveExclusions(offering, special_instructions, ingredients_to_exclude) ==
  _classify_removal_requests(offering,
    IF ingredients_to_exclude # <<>> THEN ingredients_to_exclude
    ELSE _infer_removable_ingredients(offering, special_instructions))

\* ResolveExclusions tabulated over the inputs callers draw from (evaluated once)
ResolvedExclusions ==
  [offering \in Offerings, in \in PlaceInputs |->
     ResolveExclusions(offering, in.special_instructions, in.ingredients_to_exclude)]

\* placeOrder, lines 338 and 369-386: the messages
InsufficientStockMessage(quantity, offering, stock) ==
  [kind |-> "InsufficientStock", requested |-> quantity,
   name |-> OfferingName[offering], in_stock |-> stock]

PlacedMessage(quantity, item_name, new_id, c) ==
  [kind |-> "Placed", quantity |-> quantity, item_name |-> item_name,
   order_item_id |-> new_id, applied_removals |-> AssocNames(c.removable),
   skipped_missing |-> c.missing, skipped_locked |-> c.locked]

\* variant: the UPDATE of the status also points the row at the first offering
WithStatus_Reassigned(order_item, order_status) ==
  [order_item EXCEPT !.order_status = order_status, !.since_update = 0,
                     !.offering_id = 1]

\* variant: the UPDATE of the status also sets the quantity back to its default
WithStatus_ResetsQuantity(order_item, order_status) ==
  [order_item EXCEPT !.order_status = order_status, !.since_update = 0,
                     !.quantity = 1]

\* what a row UPDATE that changes the status leaves: the new status, and
\* sys_update_date stamped with now
WithStatus(order_item, order_status) ==
  [order_item EXCEPT !.order_status = order_status, !.since_update = 0]

(***************************************************************************)
(* Handlers, each one transaction run from begin to commit.                *)
(***************************************************************************)
\* placeOrder; `op` is the call the result is returned for
placeOrderTx(op, order_id, item_name, quantity, special_instructions, ingredients_to_exclude) ==
  IF OfferingsNamed(item_name) = {}
  THEN /\ last' = [op |-> op, ret |-> ValueError("Offering", item_name)]
       /\ UNCHANGED <<offering_quantity, order_items, modifications, txn,
                      credited, paid_marks>>
  ELSE \E offering \in OfferingsNamed(item_name) :
    IF InsufficientStock(offering_quantity[offering], quantity)
    THEN /\ last' = [op |-> op,
                     ret |-> InsufficientStockMessage(quantity, offering,
                                                      offering_quantity[offering])]
         /\ UNCHANGED <<offering_quantity, order_items, modifications, txn,
                        credited, paid_marks>>
    ELSE
      LET c == ResolvedExclusions[offering,
                 [special_instructions |-> special_instructions,
                  ingredients_to_exclude |-> ingredients_to_exclude]]
          new_id == Len(order_items) + 1
      IN /\ Len(order_items) < MaxItems
         /\ order_items' = Append(order_items,
              NewOrderItem(order_id, offering, quantity, special_instructions))
         /\ modifications' = modifications \o NewModifications(new_id, c.removable)
         /\ offering_quantity' =
              [offering_quantity EXCEPT ![offering] = StockAfterPlace(@, quantity)]
         /\ credited' = Append(credited, 0)
         /\ paid_marks' = Append(paid_marks, 0)
         /\ last' = [op |-> op, ret |-> PlacedMessage(quantity, item_name, new_id, c)]
         /\ UNCHANGED txn

placeOrder(order_id, item_name, quantity, special_instructions, ingredients_to_exclude) ==
  placeOrderTx("placeOrder", order_id, item_name, quantity,
               special_instructions, ingredients_to_exclude)

\* cancel_order_item; `op` is the call the result is returned for
cancelTx(op, order_item_id) ==
  IF order_item_id \notin ItemIds
  THEN /\ last' = [op |-> op, ret |-> ValueError("OrderItem", order_item_id)]
       /\ UNCHANGED <<offering_quantity, order_items, modifications, txn,
                      credited, paid_marks>>
  ELSE LET order_item == order_items[order_item_id]
       IN IF ~Cancellable(order_item.order_status)
          THEN /\ last' = [op |-> op,
                           ret |-> [kind |-> "CannotCancel",
                                    status |-> order_item.order_status]]
               /\ UNCHANGED <<offering_quantity, order_items, modifications, txn,
                              credited, paid_marks>>
          ELSE /\ offering_quantity' =
                    [offering_quantity EXCEPT ![order_item.offering_id] =
                       StockAfterCancel(@, order_item.quantity)]
               /\ order_items' =
                    [order_items EXCEPT ![order_item_id] = WithStatus(@, "cancelled")]
               /\ credited' = [credited EXCEPT ![order_item_id] = Bump(@)]
               /\ last' = [op |-> op,
                           ret |-> [kind |-> "Cancelled", order_item_id |-> order_item_id]]
               /\ UNCHANGED <<modifications, txn, paid_marks>>

cancel_order_item(order_item_id) == cancelTx("cancel_order_item", order_item_id)

\* variant: the stock is not checked
CannotIncrease_Never(stock, quantity_difference) == FALSE

\* variant: an increase that takes all of the stock is refused
CannotIncrease_Strict(stock, quantity_difference) ==
  quantity_difference > 0 /\ stock <= quantity_difference

\* update_order_item_quantity, line 464: stock is checked only on an increase
CannotIncrease(stock, quantity_difference) ==
  quantity_difference > 0 /\ stock < quantity_difference

\* variant: the difference is applied to the stock with the wrong sign
StockAfterUpdate_Added(stock, quantity_difference) == stock + quantity_difference

\* update_order_item_quantity, line 468: offering.quantity -= quantity_difference
StockAfterUpdate(stock, quantity_difference) == stock - quantity_difference

\* variant: a new quantity of 0 is handled like any other quantity
DelegatesToCancel_Never(new_quantity) == FALSE

\* update_order_item_quantity, line 447: a new quantity of 0 cancels the item
DelegatesToCancel(new_quantity) == new_quantity = 0

\* variant: the new item is ordered with the instructions of the original
DelegatedInput_CopiesInstructions(order_item) ==
  [special_instructions |-> order_item.special_instructions,
   ingredients_to_exclude |-> <<>>]

\* update_order_item_quantity, lines 483-487: placeOrder is called with the
\* order, the name and the quantity, the other two parameters at their defaults
DelegatedInput(order_item) == PlainInput

\* variant: an UPDATE of the row leaves its sys_update_date alone
OnUpdate_KeepsStamp(order_item) == order_item

\* OrderItem.sys_update_date, onupdate=func.now(): an UPDATE of the row
\* stamps it with the time of the statement
OnUpdate(order_item) == [order_item EXCEPT !.since_update = 0]

\* variant: an item in preparation is updated in place too
UpdatedInPlace_WhilePreparing(order_status) == order_status \in {"pending", "preparing"}

\* update_order_item_quantity, line 459: only a pending item is itself updated
UpdatedInPlace(order_status) == order_status = "pending"

\* update_order_item_quantity
update_order_item_quantity(order_item_id, new_quantity) ==
  IF new_quantity < 0
  THEN /\ last' = [op |-> "update_order_item_quantity",
                   ret |-> [kind |-> "QuantityMustBeNonNegative"]]
       /\ UNCHANGED <<offering_quantity, order_items, modifications, txn,
                      credited, paid_marks>>
  ELSE IF DelegatesToCancel(new_quantity)
  THEN cancelTx("update_order_item_quantity", order_item_id)
  ELSE IF order_item_id \notin ItemIds
  THEN /\ last' = [op |-> "update_order_item_quantity",
                   ret |-> ValueError("OrderItem", order_item_id)]
       /\ UNCHANGED <<offering_quantity, order_items, modifications, txn,
                      credited, paid_marks>>
  ELSE
    LET order_item == order_items[order_item_id]
        offering == order_item.offering_id
        quantity_difference == new_quantity - order_item.quantity
    IN IF UpdatedInPlace(order_item.order_status)
       THEN IF CannotIncrease(offering_quantity[offering], quantity_difference)
            THEN /\ last' = [op |-> "update_order_item_quantity",
                             ret |-> [kind |-> "CannotIncrease",
                                      in_stock |-> offering_quantity[offering]]]
                 /\ UNCHANGED <<offering_quantity, order_items, modifications, txn,
                                credited, paid_marks>>
            ELSE /\ offering_quantity' =
                      [offering_quantity EXCEPT ![offering] =
                         StockAfterUpdate(@, quantity_difference)]
                 \* an UPDATE is emitted, and onupdate=func.now() applied, only
                 \* when the quantity really changes
                 /\ order_items' =
                      IF quantity_difference = 0 THEN order_items
                      ELSE [order_items EXCEPT
                              ![order_item_id] =
                                 OnUpdate([@ EXCEPT !.quantity = new_quantity])]
                 /\ last' = [op |-> "update_order_item_quantity",
                             ret |-> [kind |-> "Updated",
                                      order_item_id |-> order_item_id,
                                      new_quantity |-> new_quantity]]
                 /\ UNCHANGED <<modifications, txn, credited, paid_marks>>
       ELSE
         \* lines 479-487: the item is expunged and its offering relationship is
         \* read afterwards; the lazy load of a detached instance raises unless
         \* the mapping loads the relationship eagerly, and then placeOrder runs
         \/ /\ last' = [op |-> "update_order_item_quantity",
                        ret |-> [kind |-> "DetachedInstanceError"]]
            /\ UNCHANGED <<offering_quantity, order_items, modifications, txn,
                           credited, paid_marks>>
         \/ placeOrderTx("update_order_item_quantity", order_item.order_id,
                         OfferingName[offering], new_quantity,
                         DelegatedInput(order_item).special_instructions,
                         DelegatedInput(order_item).ingredients_to_exclude)

\* payment, lines 530-535: the rows the query selects
PaymentSelected(order_item, order_id, item_names) ==
  /\ order_item.order_id = order_id
  /\ item_names # {} => OfferingName[order_item.offering_id] \in item_names

\* payment, lines 542-543
PaidStatus(order_status) ==
  IF order_status # "paid" THEN "paid" ELSE order_status

\* variant: "already paid" is reported like "nothing matched"
PaymentMessage_Conflated(selected, count) ==
  IF count > 0 THEN [kind |-> "PaymentSuccessful", count |-> count]
  ELSE [kind |-> "NoItemsFound"]

\* payment, lines 537-549: the message
PaymentMessage(selected, count) ==
  IF selected = {} THEN [kind |-> "NoItemsFound"]
  ELSE IF count > 0 THEN [kind |-> "PaymentSuccessful", count |-> count]
  ELSE [kind |-> "AlreadyPaid"]

\* payment, lines 530-535: the ids of the rows selected
PaymentRows(order_id, item_names) ==
  {i \in ItemIds : PaymentSelected(order_items[i], order_id, item_names)}

\* payment, lines 541-544: the ids of the rows set to paid
PaymentChanged(order_id, item_names) ==
  {i \in PaymentRows(order_id, item_names) :
     PaidStatus(order_items[i].order_status) # order_items[i].order_status}

\* payment: the order_items table the call leaves
PaidItems(order_id, item_names) ==
  [i \in ItemIds |->
     IF i \in PaymentChanged(order_id, item_names)
     THEN WithStatus(order_items[i], PaidStatus(order_items[i].order_status))
     ELSE order_items[i]]

\* payment: what the call returns
PaymentReturn(order_id, item_names) ==
  PaymentMessage(PaymentRows(order_id, item_names),
                 Cardinality(PaymentChanged(order_id, item_names)))

\* payment
payment(order_id, item_names) ==
  /\ order_items' = PaidItems(order_id, item_names)
  /\ paid_marks' = [i \in ItemIds |->
                      IF i \in PaymentChanged(order_id, item_names)
                      THEN Bump(paid_marks[i]) ELSE paid_marks[i]]
  /\ last' = [op |-> "payment", ret |-> PaymentReturn(order_id, item_names)]
  /\ UNCHANGED <<offering_quantity, modifications, txn, credited>>

\* variant: the order filter is not applied
RefreshSelected_AnyOrder(order_item, order_id) ==
  order_item.order_status \in {"pending", "preparing"}

\* variant: the query selects pending rows only
RefreshSelected_PendingOnly(order_item, order_id) ==
  /\ order_item.order_status = "pending"
  /\ order_id # None => order_item.order_id = The(order_id)

\* refresh_order_statuses, lines 226-231: the rows the query selects
RefreshSelected(order_item, order_id) ==
  /\ order_item.order_status \in {"pending", "preparing"}
  /\ order_id # None => order_item.order_id = The(order_id)

\* refresh_order_statuses, lines 237-238: now - reference_time
elapsed(order_item) == order_item.since_update

\* variant: a stale pending item is carried through to served in one pass
AdvancedStatus_Cascading(order_status, elapsed_time) ==
  IF order_status \in {"pending", "preparing"} /\ elapsed_time >= OneMinute
  THEN "served"
  ELSE order_status

\* variant: an item in preparation is never served
AdvancedStatus_StopsAtPreparing(order_status, elapsed_time) ==
  IF order_status = "pending" /\ elapsed_time >= OneMinute THEN "preparing"
  ELSE order_status

\* variant: an item in preparation falls back to pending
AdvancedStatus_Backward(order_status, elapsed_time) ==
  IF order_status = "pending" /\ elapsed_time >= OneMinute THEN "preparing"
  ELSE IF order_status = "preparing" /\ elapsed_time >= OneMinute THEN "pending"
  ELSE order_status

\* refresh_order_statuses, lines 240-247: the status after one pass of the loop
AdvancedStatus(order_status, elapsed_time) ==
  IF order_status = "pending" /\ elapsed_time >= OneMinute THEN "preparing"
  ELSE IF order_status = "preparing" /\ elapsed_time >= OneMinute THEN "served"
  ELSE order_status

\* refresh_order_statuses, lines 233-248: the ids of the rows advanced
RefreshAdvanced(order_id) ==
  {i \in ItemIds :
     /\ RefreshSelected(order_items[i], order_id)
     /\ AdvancedStatus(order_items[i].order_status, elapsed(order_items[i]))
          # order_items[i].order_status}

\* refresh_order_statuses: the order_items table the call leaves
RefreshedItems(order_id) ==
  [i \in ItemIds |->
     IF i \in RefreshAdvanced(order_id)
     THEN WithStatus(order_items[i],
            AdvancedStatus(order_items[i].order_status, elapsed(order_items[i])))
     ELSE order_items[i]]

\* refresh_order_statuses; order_id is None or Some(id)
refresh_order_statuses(order_id) ==
  /\ order_items' = RefreshedItems(order_id)
  /\ last' = [op |-> "refresh_order_statuses",
              ret |-> [kind |-> "Count", count |-> Cardinality(RefreshAdvanced(order_id))]]
  /\ UNCHANGED <<offering_quantity, modifications, txn, credited, paid_marks>>

\* variant: only the paid items are archived
FinalizedStatus_PaidOnly(order_status) ==
  IF order_status = "paid" THEN "paid-completed" ELSE order_status

\* finalize_previous_orders, lines 109-127: the status the two bulk updates leave
FinalizedStatus(order_status) ==
  IF order_status = "paid" THEN "paid-completed"
  ELSE IF order_status = "cancelled" THEN "cancelled-completed"
  ELSE order_status

\* finalize_previous_orders
finalize_previous_orders ==
  LET updated == {i \in ItemIds :
                    FinalizedStatus(order_items[i].order_status)
                      # order_items[i].order_status}
  IN /\ order_items' =
          [i \in ItemIds |->
             IF i \in updated
             THEN WithStatus(order_items[i], FinalizedStatus(order_items[i].order_status))
             ELSE order_items[i]]
     /\ last' = [op |-> "finalize_previous_orders",
                 ret |-> [kind |-> "Count", count |-> Cardinality(updated)]]
     /\ UNCHANGED <<offering_quantity, modifications, txn, credited, paid_marks>>

\* Offering.price (DECIMAL(10, 2)), in cents
OfferingPrice == [o \in Offerings |-> IF o = 1 THEN 950 ELSE 300]

\* variant: with include_paid no paid status is filtered out
ReceiptSelected_AllPaidShown(order_item, order_id, item_names, include_paid) ==
  /\ order_item.order_id = order_id
  /\ order_item.order_status \notin {"cancelled", "cancelled-completed"}
  /\ item_names # {} => OfferingName[order_item.offering_id] \in item_names
  /\ ~include_paid => order_item.order_status \notin {"paid", "paid-completed"}

\* receipt, lines 497-508: the rows the query selects
ReceiptSelected(order_item, order_id, item_names, include_paid) ==
  /\ order_item.order_id = order_id
  /\ order_item.order_status \notin {"cancelled", "cancelled-completed"}
  /\ item_names # {} => OfferingName[order_item.offering_id] \in item_names
  /\ IF ~include_paid
     THEN order_item.order_status \notin {"paid", "paid-completed"}
     ELSE order_item.order_status # "paid-completed"

\* receipt, lines 513-522: the entry of one row
ReceiptEntry(order_item_id, order_item, include_status) ==
  IF include_status
  THEN [order_item_id |-> order_item_id, name |-> OfferingName[order_item.offering_id],
        value |-> OfferingPrice[order_item.offering_id], quantity |-> order_item.quantity,
        status |-> order_item.order_status]
  ELSE [order_item_id |-> order_item_id, name |-> OfferingName[order_item.offering_id],
        value |-> OfferingPrice[order_item.offering_id], quantity |-> order_item.quantity]

RECURSIVE ReceiptTotal_TimesQuantity(_, _)
\* variant: every row counts its price times its quantity
ReceiptTotal_TimesQuantity(rows, items) ==
  IF rows = {} THEN 0
  ELSE LET i == CHOOSE x \in rows : TRUE
       IN OfferingPrice[items[i].offering_id] * items[i].quantity
            + ReceiptTotal_TimesQuantity(rows \ {i}, items)

RECURSIVE ReceiptTotal(_, _)
\* receipt, line 524: sum(item.offering.price for item in order_items)
ReceiptTotal(rows, items) ==
  IF rows = {} THEN 0
  ELSE LET i == CHOOSE x \in rows : TRUE
       IN OfferingPrice[items[i].offering_id] + ReceiptTotal(rows \ {i}, items)

\* receipt, lines 492-525: what the call returns; the statuses of the order
\* are refreshed first, then the rows are read (the query has no ORDER BY: the
\* entries are returned as a set)
ReceiptReturn(order_id, item_names, include_paid, include_status) ==
  LET refreshed == RefreshedItems(Some(order_id))
      rows == {i \in ItemIds :
                 ReceiptSelected(refreshed[i], order_id, item_names, include_paid)}
  IN [kind |-> "Receipt",
      items |-> {ReceiptEntry(i, refreshed[i], include_status) : i \in rows},
      total |-> ReceiptTotal(rows, refreshed)]

\* receipt
receipt(order_id, item_names, include_paid, include_status) ==
  /\ order_items' = RefreshedItems(Some(order_id))
  /\ last' = [op |-> "receipt",
              ret |-> ReceiptReturn(order_id, item_names, include_paid, include_status)]
  /\ UNCHANGED <<offering_quantity, modifications, txn, credited, paid_marks>>

\* one minute passes: every elapsed time grows, up to where the code stops
\* telling it apart
Tick ==
  /\ order_items' =
       [i \in ItemIds |->
          [order_items[i] EXCEPT
             !.since_update = IF @ < OneMinute THEN @ + 1 ELSE @]]
  /\ UNCHANGED <<offering_quantity, modifications, txn, credited, paid_marks, last>>

\* order item ids callers name: the existing ones and one that does not exist
ItemIdInputs == 1..(Len(order_items) + 1)

(***************************************************************************)
(* Specifications of sequential callers.                                   *)
(***************************************************************************)
\* placements with every kind of input, and cancellations
NextPlaceCancel ==
  \/ \E order_id \in OrderIds, item_name \in ItemNames, quantity \in QuantityInputs,
        in \in PlaceInputs :
       placeOrder(order_id, item_name, quantity,
                  in.special_instructions, in.ingredients_to_exclude)
  \/ \E order_item_id \in ItemIdInputs : cancel_order_item(order_item_id)

SpecPlaceCancel == Init /\ [][NextPlaceCancel]_vars

\* every operation of the ledger, one call at a time, for one table's order
Next ==
  \/ \E order_id \in OneOrder, item_name \in ItemNames, quantity \in PositiveQuantities :
       placeOrder(order_id, item_name, quantity,
                  PlainInput.special_instructions, PlainInput.ingredients_to_exclude)
  \/ \E order_item_id \in ItemIdInputs : cancel_order_item(order_item_id)
  \/ \E order_item_id \in ItemIdInputs, new_quantity \in QuantityInputs :
       update_order_item_quantity(order_item_id, new_quantity)
  \/ \E order_id \in OneOrder, item_names \in ItemNameFilters :
       payment(order_id, item_names)
  \/ \E order_id \in {None} \cup {Some(o) : o \in OneOrder} :
       refresh_order_statuses(order_id)
  \/ finalize_previous_orders
  \/ Tick

Spec == Init /\ [][Next]_vars

\* the options receipt is called with: the defaults of the tool wrapper, and
\* the order panel's include_paid=True, include_status=True
ReceiptOptions ==
  { [include_paid |-> FALSE, include_status |-> FALSE],
    [include_paid |-> TRUE, include_status |-> TRUE] }

\* the names on the menu
MenuNames == {OfferingName[o] : o \in Offerings}

\* two tables ordering, paying and asking for their receipts
NextOrders ==
  \/ \E order_id \in OrderIds, item_name \in MenuNames, quantity \in PositiveQuantities :
       placeOrder(order_id, item_name, quantity,
                  PlainInput.special_instructions, PlainInput.ingredients_to_exclude)
  \/ \E order_item_id \in ItemIds : cancel_order_item(order_item_id)
  \/ \E order_id \in OrderIds, item_names \in ItemNameFilters :
       payment(order_id, item_names)
  \/ \E order_id \in OrderIds, item_names \in ItemNameFilters, options \in ReceiptOptions :
       receipt(order_id, item_names, options.include_paid, options.include_status)
  \/ finalize_previous_orders
  \/ Tick

SpecOrders == Init /\ [][NextOrders]_vars

\* one table's order with every operation of the ledger and the receipt
NextLedger ==
  \/ Next
  \/ \E order_id \in OneOrder, item_names \in ItemNameFilters, options \in ReceiptOptions :
       receipt(order_id, item_names, options.include_paid, options.include_status)

SpecLedger == Init /\ [][NextLedger]_vars

\* customised items of one table's order, advanced by the daemon and updated
NextCustom ==
  \/ \E order_id \in OneOrder, item_name \in MenuNames, quantity \in PositiveQuantities,
        in \in PlaceInputs :
       placeOrder(order_id, item_name, quantity,
                  in.special_instructions, in.ingredients_to_exclude)
  \/ \E order_item_id \in ItemIds : cancel_order_item(order_item_id)
  \/ \E order_item_id \in ItemIds, new_quantity \in PositiveQuantities :
       update_order_item_quantity(order_item_id, new_quantity)
  \/ refresh_order_statuses(None)
  \/ Tick

SpecCustom == Init /\ [][NextCustom]_vars

\* one table's order while the status daemon runs: the daemon's refresh of
\* all orders, the passing of time, and the calls that touch an item
NextDaemon ==
  \/ \E order_id \in OneOrder, item_name \in MenuNames, quantity \in PositiveQuantities :
       placeOrder(order_id, item_name, quantity,
                  PlainInput.special_instructions, PlainInput.ingredients_to_exclude)
  \/ \E order_item_id \in ItemIds : cancel_order_item(order_item_id)
  \/ \E order_item_id \in ItemIds, new_quantity \in PositiveQuantities :
       update_order_item_quantity(order_item_id, new_quantity)
  \/ \E order_id \in OneOrder : payment(order_id, {})
  \/ refresh_order_statuses(None)
  \/ Tick

\* the worker of app.py calls refresh_order_statuses every 30 seconds for as
\* long as the process lives, and time passes: neither is put off for ever
SpecDaemon ==
  /\ Init
  /\ [][NextDaemon]_vars
  /\ WF_vars(refresh_order_statuses(None))
  /\ WF_vars(Tick)

(***************************************************************************)
(* The background services of app.py: the archival sweep, then the worker  *)
(* thread "order-status-daemon".  txn[Worker] is the position of the       *)
(* thread, txn[Host] the state of stop_event.                              *)
(***************************************************************************)
Worker == 1

Host == 2

\* threading.Event(): is_set()
stop_event_is_set == txn[Host].pc = "stop_set"

\* finalize_previous_orders: the order_items table the sweep leaves
FinalizedItems ==
  [i \in ItemIds |->
     IF FinalizedStatus(order_items[i].order_status) # order_items[i].order_status
     THEN WithStatus(order_items[i], FinalizedStatus(order_items[i].order_status))
     ELSE order_items[i]]

\* variant: the loop runs on whatever the signal
AfterCheck_IgnoresStop(is_set) == "run"

\* worker, line 46: while not stop_event.is_set()
AfterCheck(is_set) == IF is_set THEN "done" ELSE "run"

\* variant: an exception of the refresh leaves the loop
AfterRefresh_ExceptionEnds(raised) == IF raised THEN "done" ELSE "wait"

\* worker, lines 47-51: try / except Exception / stop_event.wait(30)
AfterRefresh(raised) == "wait"

\* before start_background_services is called: no sweep yet, no event yet
InitWorker ==
  /\ offering_quantity = [o \in Offerings |-> InitialStock]
  /\ order_items = <<>>
  /\ modifications = <<>>
  /\ txn = [p \in Procs |->
              IF p = Worker THEN [pc |-> "start", sweeps |-> 0, refreshed |-> FALSE]
              ELSE [pc |-> "stop_clear"]]
  /\ credited = <<>>
  /\ paid_marks = <<>>
  /\ last = [op |-> "none"]

\* start_background_services, lines 41-55: the sweep, then the thread is
\* started; an exception of the sweep leaves the function before line 43
start_background_services ==
  /\ txn[Worker].pc = "start"
  /\ \/ /\ order_items' = FinalizedItems
        /\ last' = [op |-> "finalize_previous_orders",
                    ret |-> [kind |-> "Count",
                             count |-> Cardinality({i \in ItemIds :
                                          FinalizedItems[i] # order_items[i]})]]
        /\ txn' = [txn EXCEPT ![Worker] = [@ EXCEPT !.pc = "check", !.sweeps = Bump(@)]]
     \/ /\ last' = [op |-> "finalize_previous_orders", ret |-> [kind |-> "Exception"]]
        /\ txn' = [txn EXCEPT ![Worker] = [@ EXCEPT !.pc = "failed"]]
        /\ UNCHANGED order_items
  /\ UNCHANGED <<offering_quantity, modifications, credited, paid_marks>>

\* worker, line 46: the test of the loop
worker_check ==
  /\ txn[Worker].pc = "check"
  /\ txn' = [txn EXCEPT ![Worker] = [@ EXCEPT !.pc = AfterCheck(stop_event_is_set)]]
  /\ UNCHANGED <<offering_quantity, order_items, modifications, credited, paid_marks, last>>

\* worker, lines 47-50: the refresh of all orders; it returns its count or
\* raises (the store is unreachable), and the exception is printed
worker_refresh ==
  /\ txn[Worker].pc = "run"
  /\ \E raised \in BOOLEAN :
       /\ IF raised
          THEN /\ last' = [op |-> "refresh_order_statuses", ret |-> [kind |-> "Exception"]]
               /\ UNCHANGED order_items
          ELSE /\ order_items' = RefreshedItems(None)
               /\ last' = [op |-> "refresh_order_statuses",
                           ret |-> [kind |-> "Count",
                                    count |-> Cardinality(RefreshAdvanced(None))]]
       /\ txn' = [txn EXCEPT ![Worker] =
                    [@ EXCEPT !.pc = AfterRefresh(raised), !.refreshed = TRUE]]
  /\ UNCHANGED <<offering_quantity, modifications, credited, paid_marks>>

\* worker, line 51: stop_event.wait(30) returns, on the signal or after 30 s
worker_wait ==
  /\ txn[Worker].pc = "wait"
  /\ txn' = [txn EXCEPT ![Worker] = [@ EXCEPT !.pc = "check", !.refreshed = FALSE]]
  /\ UNCHANGED <<offering_quantity, order_items, modifications, credited, paid_marks, last>>

\* the holder of the event returned at line 55 sets it
stop_event_set ==
  /\ txn[Worker].pc \notin {"start", "failed"}
  /\ txn[Host].pc = "stop_clear"
  /\ txn' = [txn EXCEPT ![Host] = [pc |-> "stop_set"]]
  /\ UNCHANGED <<offering_quantity, order_items, modifications, credited, paid_marks, last>>

\* the services beside a table that orders and pays while time passes; the
\* rows written before the start are those an earlier run left behind
NextWorker ==
  \/ start_background_services
  \/ worker_check
  \/ worker_refresh
  \/ worker_wait
  \/ stop_event_set
  \/ \E order_id \in OneOrder, item_name \in MenuNames, quantity \in PositiveQuantities :
       placeOrder(order_id, item_name, quantity,
                  PlainInput.special_instructions, PlainInput.ingredients_to_exclude)
  \/ \E order_item_id \in ItemIds : cancel_order_item(order_item_id)
  \/ \E order_id \in OneOrder : payment(order_id, {})
  \/ Tick

\* the thread is scheduled, a refresh returns or raises, a wait ends
SpecWorker ==
  /\ InitWorker
  /\ [][NextWorker]_vars
  /\ WF_vars(worker_check)
  /\ WF_vars(worker_refresh)
  /\ WF_vars(worker_wait)

(***************************************************************************)
(* Concurrent handlers.  Each runs in its own session and transaction; the *)
(* steps are its SQL statements: a SELECT, a SELECT ... FOR UPDATE, and    *)
(* session.commit(), which flushes the pending INSERTs and UPDATEs and     *)
(* commits them.  A handler that returns early commits nothing and         *)
(* releases its locks in the step that returns.  A transaction the engine  *)
(* rolls back as a deadlock victim leaves the tables as if it had never    *)
(* begun, so lock acquisition is modelled as one step.                     *)
(***************************************************************************)
\* variant: rows are read without FOR UPDATE
ItemLocked_Never(p, order_item_id) == FALSE

\* with_for_update(): the order_items row is held by another open transaction
ItemLocked(p, order_item_id) ==
  \E q \in Procs \ {p} :
    /\ txn[q].pc \in {"cancel_locked", "cancel_loaded", "payment_locked"}
    /\ order_item_id \in txn[q].rows

\* payment, lines 532-535: FOR UPDATE over the join locks the offerings rows too
OfferingLocked(p, offering) ==
  \E q \in Procs \ {p} :
    /\ txn[q].pc = "payment_locked"
    /\ offering \in txn[q].offerings

\* placements that have read the stock and not committed yet
OpenPlacements == Cardinality({p \in Procs : txn[p].pc = "place_read"})

\* placeOrder, lines 325-338: the offering is read with a plain SELECT, and the
\* stock is checked against the value read
placeOrderRead(p, order_id, item_name, quantity, special_instructions, ingredients_to_exclude) ==
  /\ txn[p] = Idle
  /\ IF OfferingsNamed(item_name) = {}
     THEN /\ last' = [op |-> "placeOrder", ret |-> ValueError("Offering", item_name)]
          /\ UNCHANGED <<offering_quantity, order_items, modifications, txn,
                         credited, paid_marks>>
     ELSE \E offering \in OfferingsNamed(item_name) :
       IF InsufficientStock(offering_quantity[offering], quantity)
       THEN /\ last' = [op |-> "placeOrder",
                        ret |-> InsufficientStockMessage(quantity, offering,
                                                         offering_quantity[offering])]
            /\ UNCHANGED <<offering_quantity, order_items, modifications, txn,
                           credited, paid_marks>>
       ELSE /\ Len(order_items) + OpenPlacements < MaxItems
            /\ txn' = [txn EXCEPT ![p] =
                 [pc |-> "place_read", order_id |-> order_id, item_name |-> item_name,
                  offering |-> offering, quantity |-> quantity,
                  in |-> [special_instructions |-> special_instructions,
                          ingredients_to_exclude |-> ingredients_to_exclude],
                  stock |-> offering_quantity[offering]]]
            /\ UNCHANGED <<offering_quantity, order_items, modifications,
                           credited, paid_marks, last>>

\* placeOrder, lines 341-367: the item and its modifications are inserted and
\* the offering is updated to the value computed from the stock that was read
placeOrderCommit(p) ==
  /\ txn[p].pc = "place_read"
  /\ ~OfferingLocked(p, txn[p].offering)
  /\ LET t == txn[p]
         c == ResolvedExclusions[t.offering, t.in]
         new_id == Len(order_items) + 1
     IN /\ order_items' = Append(order_items,
             NewOrderItem(t.order_id, t.offering, t.quantity, t.in.special_instructions))
        /\ modifications' = modifications \o NewModifications(new_id, c.removable)
        /\ offering_quantity' =
             [offering_quantity EXCEPT ![t.offering] = StockAfterPlace(t.stock, t.quantity)]
        /\ credited' = Append(credited, 0)
        /\ paid_marks' = Append(paid_marks, 0)
        /\ last' = [op |-> "placeOrder",
                    ret |-> PlacedMessage(t.quantity, t.item_name, new_id, c)]
        /\ txn' = [txn EXCEPT ![p] = Idle]

\* cancel_order_item, lines 402-411: the row is read FOR UPDATE, which waits
\* for the lock and returns the committed row; the status is checked
cancelLock(p, order_item_id) ==
  /\ txn[p] = Idle
  /\ IF order_item_id \notin ItemIds
     THEN /\ last' = [op |-> "cancel_order_item",
                      ret |-> ValueError("OrderItem", order_item_id)]
          /\ UNCHANGED <<offering_quantity, order_items, modifications, txn,
                         credited, paid_marks>>
     ELSE /\ ~ItemLocked(p, order_item_id)
          /\ IF ~Cancellable(order_items[order_item_id].order_status)
             THEN /\ last' = [op |-> "cancel_order_item",
                              ret |-> [kind |-> "CannotCancel",
                                       status |-> order_items[order_item_id].order_status]]
                  /\ UNCHANGED <<offering_quantity, order_items, modifications, txn,
                                 credited, paid_marks>>
             ELSE /\ txn' = [txn EXCEPT ![p] =
                       [pc |-> "cancel_locked", rows |-> {order_item_id}]]
                  /\ UNCHANGED <<offering_quantity, order_items, modifications,
                                 credited, paid_marks, last>>

\* cancel_order_item, line 415: order_item.offering is loaded with a plain SELECT
cancelLoad(p) ==
  /\ txn[p].pc = "cancel_locked"
  /\ \E order_item_id \in txn[p].rows :
       txn' = [txn EXCEPT ![p] =
         [pc |-> "cancel_loaded", rows |-> {order_item_id},
          stock |-> offering_quantity[order_items[order_item_id].offering_id]]]
  /\ UNCHANGED <<offering_quantity, order_items, modifications, credited,
                 paid_marks, last>>

\* cancel_order_item, lines 415-421: the offering is updated to the value
\* computed from the stock that was loaded, the item to cancelled
cancelCommit(p) ==
  /\ txn[p].pc = "cancel_loaded"
  /\ \E order_item_id \in txn[p].rows :
       LET order_item == order_items[order_item_id]
       IN /\ ~OfferingLocked(p, order_item.offering_id)
          /\ offering_quantity' =
               [offering_quantity EXCEPT ![order_item.offering_id] =
                  StockAfterCancel(txn[p].stock, order_item.quantity)]
          /\ order_items' =
               [order_items EXCEPT ![order_item_id] = WithStatus(@, "cancelled")]
          /\ credited' = [credited EXCEPT ![order_item_id] = Bump(@)]
          /\ last' = [op |-> "cancel_order_item",
                      ret |-> [kind |-> "Cancelled", order_item_id |-> order_item_id]]
  /\ txn' = [txn EXCEPT ![p] = Idle]
  /\ UNCHANGED <<modifications, paid_marks>>

\* payment, lines 530-538: the matching rows are read FOR UPDATE
paymentLock(p, order_id, item_names) ==
  /\ txn[p] = Idle
  /\ LET selected == {i \in ItemIds :
                        PaymentSelected(order_items[i], order_id, item_names)}
         joined == IF item_names # {}
                   THEN {order_items[i].offering_id : i \in selected}
                   ELSE {}
     IN /\ \A i \in selected : ~ItemLocked(p, i)
        /\ \A o \in joined : ~OfferingLocked(p, o)
        /\ IF selected = {}
           THEN /\ last' = [op |-> "payment", ret |-> PaymentMessage(selected, 0)]
                /\ UNCHANGED <<offering_quantity, order_items, modifications, txn,
                               credited, paid_marks>>
           ELSE /\ txn' = [txn EXCEPT ![p] =
                     [pc |-> "payment_locked", rows |-> selected, offerings |-> joined]]
                /\ UNCHANGED <<offering_quantity, order_items, modifications,
                               credited, paid_marks, last>>

\* payment, lines 540-549, and the commit of get_session
paymentCommit(p) ==
  /\ txn[p].pc = "payment_locked"
  /\ LET selected == txn[p].rows
         changed == {i \in selected :
                       PaidStatus(order_items[i].order_status) # order_items[i].order_status}
     IN /\ order_items' =
             [i \in ItemIds |->
                IF i \in changed
                THEN WithStatus(order_items[i], PaidStatus(order_items[i].order_status))
                ELSE order_items[i]]
        /\ paid_marks' = [i \in ItemIds |->
                            IF i \in changed THEN Bump(paid_marks[i]) ELSE paid_marks[i]]
        /\ last' = [op |-> "payment",
                    ret |-> PaymentMessage(selected, Cardinality(changed))]
  /\ txn' = [txn EXCEPT ![p] = Idle]
  /\ UNCHANGED <<offering_quantity, modifications, credited>>

\* placements, cancellations and payments of concurrent request handlers
NextConcurrent ==
  \E p \in Procs :
    \/ \E order_id \in OneOrder, item_name \in ItemNames, quantity \in PositiveQuantities :
         placeOrderRead(p, order_id, item_name, quantity,
                        PlainInput.special_instructions, PlainInput.ingredients_to_exclude)
    \/ placeOrderCommit(p)
    \/ \E order_item_id \in ItemIdInputs : cancelLock(p, order_item_id)
    \/ cancelLoad(p)
    \/ cancelCommit(p)
    \/ \E order_id \in OneOrder, item_names \in ItemNameFilters :
         paymentLock(p, order_id, item_names)
    \/ paymentCommit(p)

SpecConcurrent == Init /\ [][NextConcurrent]_vars

\* refresh_order_statuses, lines 240-250: at the commit the row is updated by
\* its primary key to the status computed from the row that was read
RefreshWrite(order_item, order_status) ==
  WithStatus(order_item, order_status)

\* refresh_order_statuses, lines 226-248: the pending and preparing rows are
\* read with a plain query, which waits for no lock, and the new statuses are
\* assigned to the loaded rows; with nothing to update the call returns 0
refreshRead(p, order_id) ==
  /\ txn[p] = Idle
  /\ IF RefreshAdvanced(order_id) = {}
     THEN /\ last' = [op |-> "refresh_order_statuses",
                      ret |-> [kind |-> "Count", count |-> 0]]
          /\ UNCHANGED <<offering_quantity, order_items, modifications, txn,
                         credited, paid_marks>>
     ELSE /\ txn' = [txn EXCEPT ![p] =
               [pc |-> "refresh_read",
                writes |-> [i \in RefreshAdvanced(order_id) |->
                              AdvancedStatus(order_items[i].order_status,
                                             elapsed(order_items[i]))]]]
          /\ UNCHANGED <<offering_quantity, order_items, modifications,
                         credited, paid_marks, last>>

\* refresh_order_statuses, lines 249-250: session.commit() flushes one UPDATE
\* per changed row, each waiting for the lock of its row, and commits
refreshCommit(p) ==
  /\ txn[p].pc = "refresh_read"
  /\ \A i \in DOMAIN txn[p].writes : ~ItemLocked(p, i)
  /\ order_items' =
       [i \in ItemIds |->
          IF i \in DOMAIN txn[p].writes
          THEN RefreshWrite(order_items[i], txn[p].writes[i])
          ELSE order_items[i]]
  /\ last' = [op |-> "refresh_order_statuses",
              ret |-> [kind |-> "Count", count |-> Cardinality(DOMAIN txn[p].writes)]]
  /\ txn' = [txn EXCEPT ![p] = Idle]
  /\ UNCHANGED <<offering_quantity, modifications, credited, paid_marks>>

\* a placement made while no other transaction is open
placeOrderAlone(order_id, item_name, quantity) ==
  /\ \A p \in Procs : txn[p] = Idle
  /\ placeOrder(order_id, item_name, quantity,
                PlainInput.special_instructions, PlainInput.ingredients_to_exclude)

\* the items of a table, once ordered, under the daemon's refresh and
\* concurrent cancellations and payments
NextContention ==
  \/ \E order_id \in OneOrder, item_name \in MenuNames, quantity \in PositiveQuantities :
       placeOrderAlone(order_id, item_name, quantity)
  \/ Tick
  \/ \E p \in Procs :
       \/ \E order_item_id \in ItemIds : cancelLock(p, order_item_id)
       \/ cancelLoad(p)
       \/ cancelCommit(p)
       \/ \E order_id \in OneOrder : paymentLock(p, order_id, {})
       \/ paymentCommit(p)
       \/ refreshRead(p, None)
       \/ refreshCommit(p)

SpecContention == Init /\ [][NextContention]_vars

(***************************************************************************)
(* The classifier on its own: a list of requested names is drawn for an    *)
(* offering and _classify_removal_requests is applied to it.               *)
(***************************************************************************)
\* spellings a request may use for the removable ingredient Onions
OnionsSpellings == { Onions, <<" ","O","N","I","O","N","S"," ">> }

\* spellings a request may use for the removable ingredient Olive Oil
OliveOilSpellings == { OliveOil, <<"O","L","I","V","E"," "," "," ","o","i","l">>, <<"o","l","i","v","e"," ","o","i","l">> }

\* the names a request may carry: spellings of the offering's ingredients,
\* names the offering does not have, and empty or blank names
RequestedNames ==
  OnionsSpellings \cup OliveOilSpellings \cup
  { Basil, <<"b","a","s","i","l">>, <<"h","a","m">>, <<"H","A","M">>, <<>>, <<" "," ">> }

RequestLists == UNION {[1..n -> RequestedNames] : n \in 0..MaxRequested}

InitClassify ==
  /\ offering_quantity = [o \in Offerings |-> InitialStock]
  /\ order_items = <<>>
  /\ modifications = <<>>
  /\ txn = [p \in Procs |-> Idle]
  /\ credited = <<>>
  /\ paid_marks = <<>>
  /\ last \in {[op |-> "requested", offering |-> o, ingredients_to_exclude |-> l] :
                 o \in Offerings, l \in RequestLists}

\* one call _classify_removal_requests(offering, ingredients_to_exclude)
classify ==
  /\ last.op = "requested"
  /\ last' = [op |-> "_classify_removal_requests",
              offering |-> last.offering,
              ingredients_to_exclude |-> last.ingredients_to_exclude,
              ret |-> _classify_removal_requests(last.offering,
                                                 last.ingredients_to_exclude)]
  /\ UNCHANGED <<offering_quantity, order_items, modifications, txn,
                 credited, paid_marks>>

NextClassify == classify

SpecClassify == InitClassify /\ [][NextClassify]_vars

(***************************************************************************)
(* The tool interface: AnthropicLLM._execute_tool looks the tool up, calls *)
(* its wrapper with the input object and turns what comes back, a result   *)
(* or an exception, into a string.  A field of the input object is an      *)
(* optional value: None when the object does not have the key.  The call   *)
(* of the wrapper and the return of _execute_tool are two steps; between   *)
(* them `last` holds what the wrapper returned or raised, and nothing else *)
(* runs.                                                                   *)
(***************************************************************************)
\* AnthropicLLM.tool_map: the name of each tool and the operation its
\* wrapper calls
tool_map ==
  [get_categories |-> "getCategories",
   get_menu |-> "getMenu",
   get_allergens |-> "get_allergens",
   place_order |-> "placeOrder",
   cancel_order_item |-> "cancel_order_item",
   update_order_item_quantity |-> "update_order_item_quantity",
   get_receipt |-> "receipt",
   process_payment |-> "payment",
   get_faq_keys |-> "get_all_keys",
   get_faq_value |-> "get_value_for_key"]

\* the names a caller may dispatch: the ten tools and one that is none
ToolNames == DOMAIN tool_map \cup {"make_coffee"}

\* the tool whose wrapper calls the operation
ToolOf(op) == CHOOSE t \in DOMAIN tool_map : tool_map[t] = op

Operations == {tool_map[t] : t \in DOMAIN tool_map}

\* quantities a tool input may carry: any integer, here from below zero to
\* one more than the stock an offering starts with
ToolQuantities == -1..(InitialStock + 1)

Optional(S) == {None} \cup {Some(x) : x \in S}

\* the input objects of each tool
ToolInputs(tool_name) ==
  IF tool_name = "place_order"
    THEN [order_id : Optional(OneOrder), item_name : Optional(ItemNames),
          quantity : Optional(ToolQuantities)]
  ELSE IF tool_name = "cancel_order_item"
    THEN [order_item_id : Optional(ItemIdInputs)]
  ELSE IF tool_name = "update_order_item_quantity"
    THEN [order_item_id : Optional(ItemIdInputs), new_quantity : Optional(ToolQuantities)]
  ELSE IF tool_name \in {"get_receipt", "process_payment"}
    THEN [order_id : Optional(OneOrder), item_names : ItemNameFilters]
  ELSE IF tool_name = "get_allergens"
    THEN [item_name : Optional(ItemNames)]
  ELSE IF tool_name = "get_faq_value"
    THEN [key : Optional({"hours"})]
  ELSE {[none |-> None]}

\* params[key] of a key the object does not have
KeyError(key) == [kind |-> "KeyError", key |-> key]

ExceptionKinds == {"ValueError", "KeyError", "DetachedInstanceError"}

\* the call ended by raising
Raised(outcome) == outcome.kind \in ExceptionKinds

\* an operation that only reads: it returns or raises and writes nothing
ReadOnly(op, outcome) ==
  /\ last' = [op |-> op, ret |-> outcome]
  /\ UNCHANGED <<offering_quantity, order_items, modifications, txn,
                 credited, paid_marks>>

\* tool_wrappers.wrap_get_allergens; get_allergens raises for an unknown item
wrap_get_allergens(params) ==
  IF params.item_name = None THEN ReadOnly("get_allergens", KeyError("item_name"))
  ELSE IF OfferingsNamed(The(params.item_name)) = {}
    THEN ReadOnly("get_allergens", ValueError("Offering", The(params.item_name)))
  ELSE ReadOnly("get_allergens", [kind |-> "Allergens"])

\* tool_wrappers.wrap_get_value_for_key
wrap_get_value_for_key(params) ==
  IF params.key = None THEN ReadOnly("get_value_for_key", KeyError("key"))
  ELSE ReadOnly("get_value_for_key", [kind |-> "FaqValue"])

\* tool_wrappers.wrap_place_order: quantity defaults to 1, the instructions
\* and the exclusion list to None
wrap_place_order(params) ==
  IF params.order_id = None THEN ReadOnly("placeOrder", KeyError("order_id"))
  ELSE IF params.item_name = None THEN ReadOnly("placeOrder", KeyError("item_name"))
  ELSE placeOrder(The(params.order_id), The(params.item_name),
                  IF params.quantity = None THEN 1 ELSE The(params.quantity),
                  PlainInput.special_instructions, PlainInput.ingredients_to_exclude)

\* tool_wrappers.wrap_cancel_order_item
wrap_cancel_order_item(params) ==
  IF params.order_item_id = None
  THEN ReadOnly("cancel_order_item", KeyError("order_item_id"))
  ELSE cancel_order_item(The(params.order_item_id))

\* tool_wrappers.wrap_update_order_item_quantity
wrap_update_order_item_quantity(params) ==
  IF params.order_item_id = None
    THEN ReadOnly("update_order_item_quantity", KeyError("order_item_id"))
  ELSE IF params.new_quantity = None
    THEN ReadOnly("update_order_item_quantity", KeyError("new_quantity"))
  ELSE update_order_item_quantity(The(params.order_item_id), The(params.new_quantity))

\* tool_wrappers.wrap_receipt: include_paid and include_status keep their defaults
wrap_receipt(params) ==
  IF params.order_id = None THEN ReadOnly("receipt", KeyError("order_id"))
  ELSE receipt(The(params.order_id), params.item_names, FALSE, FALSE)

\* tool_wrappers.wrap_payment
wrap_payment(params) ==
  IF params.order_id = None THEN ReadOnly("payment", KeyError("order_id"))
  ELSE payment(The(params.order_id), params.item_names)

\* self.tool_map[tool_name](tool_input), line 313
CallWrapper(tool_name, tool_input) ==
  IF tool_name = "place_order" THEN wrap_place_order(tool_input)
  ELSE IF tool_name = "cancel_order_item" THEN wrap_cancel_order_item(tool_input)
  ELSE IF tool_name = "update_order_item_quantity"
    THEN wrap_update_order_item_quantity(tool_input)
  ELSE IF tool_name = "get_receipt" THEN wrap_receipt(tool_input)
  ELSE IF tool_name = "process_payment" THEN wrap_payment(tool_input)
  ELSE IF tool_name = "get_allergens" THEN wrap_get_allergens(tool_input)
  ELSE IF tool_name = "get_faq_value" THEN wrap_get_value_for_key(tool_input)
  ELSE ReadOnly(tool_map[tool_name], [kind |-> "Listing"])

\* variant: an exception of the wrapper is passed on to the caller
ToolResult_Propagates(tool_name, outcome) ==
  IF Raised(outcome) THEN outcome
  ELSE [kind |-> "str", of |-> outcome]

\* _execute_tool, lines 311-325: str(result), or the message made of the
\* tool's name and the exception
ToolResult(tool_name, outcome) ==
  IF Raised(outcome)
  THEN [kind |-> "str", of |-> [kind |-> "ErrorExecuting", tool_name |-> tool_name,
                                exception |-> outcome]]
  ELSE [kind |-> "str", of |-> outcome]

\* a wrapper has returned or raised and _execute_tool has not returned yet
InTool == last.op \in Operations

\* variant: no name is found in the map
Recognized_Never(tool_name) == FALSE

\* _execute_tool, line 306: tool_name in self.tool_map
Recognized(tool_name) == tool_name \in DOMAIN tool_map

\* _execute_tool up to the wrapper's return; an unknown name returns at once
execute_tool_call(tool_name, tool_input) ==
  /\ ~InTool
  /\ IF ~Recognized(tool_name)
     THEN /\ last' = [op |-> "_execute_tool", tool_name |-> tool_name,
                      ret |-> [kind |-> "str",
                               of |-> [kind |-> "UnknownTool", tool_name |-> tool_name]]]
          /\ UNCHANGED <<offering_quantity, order_items, modifications, txn,
                         credited, paid_marks>>
     ELSE CallWrapper(tool_name, tool_input)

\* _execute_tool from the wrapper's return on
execute_tool_return ==
  /\ InTool
  /\ last' = [op |-> "_execute_tool", tool_name |-> ToolOf(last.op),
              ret |-> ToolResult(ToolOf(last.op), last.ret)]
  /\ UNCHANGED <<offering_quantity, order_items, modifications, txn,
                 credited, paid_marks>>

NextDispatch ==
  \/ \E tool_name \in ToolNames :
       \E tool_input \in ToolInputs(tool_name) : execute_tool_call(tool_name, tool_input)
  \/ execute_tool_return

SpecDispatch == Init /\ [][NextDispatch]_vars

(***************************************************************************)
(* Properties.                                                             *)
(***************************************************************************)
RECURSIVE SumQuantities(_)
\* the sum of the quantities of the order items whose ids are in S
SumQuantities(S) ==
  IF S = {} THEN 0
  ELSE LET i == CHOOSE x \in S : TRUE
       IN order_items[i].quantity + SumQuantities(S \ {i})

ItemsOf(offering) == {i \in ItemIds : order_items[i].offering_id = offering}

OptionalOrders == {None} \cup {Some(o) : o \in OrderIds}

\* C1: over placeOrder and cancel_order_item calls alone, after every call the
\* stock of each offering plus the quantities of its items whose status is
\* not cancelled equals the initial stock.
C1_StockConservation ==
  \A o \in Offerings :
    offering_quantity[o]
      + SumQuantities({i \in ItemsOf(o) : order_items[i].order_status # "cancelled"})
      = InitialStock

\* C1 witness: a cancellation has just restored stock while another item of
\* the same offering is still pending.
C1_Witness ==
  /\ last.op = "cancel_order_item"
  /\ last.ret.kind = "Cancelled"
  /\ \E i, j \in ItemIds :
       /\ order_items[i].order_status = "cancelled"
       /\ order_items[j].order_status = "pending"
       /\ order_items[i].offering_id = order_items[j].offering_id
       /\ order_items[i].quantity > 0

\* C2 as claimed: over all operations, each offering's stock equals the
\* initial stock minus the quantities of its items whose status is neither
\* cancelled nor a -completed variant.
C2_I1_AsClaimed ==
  \A o \in Offerings :
    offering_quantity[o] =
      InitialStock
        - SumQuantities({i \in ItemsOf(o) :
            order_items[i].order_status \notin
              {"cancelled", "paid-completed", "cancelled-completed"}})

\* C2 amended: over all operations, each offering's stock equals the initial
\* stock minus the quantities of its items that were never cancelled,
\* whatever status they have now.
C2_I1_NeverCancelled ==
  \A o \in Offerings :
    offering_quantity[o] =
      InitialStock - SumQuantities({i \in ItemsOf(o) : credited[i] = 0})

\* C2 witness: one item is archived as paid-completed and still counted, and
\* another was cancelled, then paid, and is not counted.
C2_Witness ==
  \E i, j \in ItemIds :
    /\ order_items[i].order_status = "paid-completed"
    /\ credited[i] = 0
    /\ order_items[j].order_status = "paid"
    /\ credited[j] = 1

\* C3 as claimed: two concurrent placements behave as if serialized: the
\* quantities of the items they create never exceed the stock that was there
\* before them, and the stock left is that stock minus those quantities.
C3_NoOverselling ==
  (\A i \in ItemIds : credited[i] = 0) =>
    \A o \in Offerings :
      /\ SumQuantities(ItemsOf(o)) <= InitialStock
      /\ offering_quantity[o] = InitialStock - SumQuantities(ItemsOf(o))

\* C4: for concurrent cancel_order_item and payment requests on the same
\* item, the item's quantity is given back to the stock at most once and the
\* item is set to paid by at most one payment.
C4_NoDoubleCreditOrPay ==
  \A i \in ItemIds : credited[i] <= 1 /\ paid_marks[i] <= 1

\* C4 witness: an item was cancelled by one request and set to paid by a
\* later one, each counted once, and a further payment holds its row.
C4_Witness ==
  \E p \in Procs, i \in ItemIds :
    /\ txn[p].pc = "payment_locked"
    /\ i \in txn[p].rows
    /\ credited[i] = 1
    /\ paid_marks[i] = 1

\* C5: a second cancel_order_item right after a successful one on the same
\* item returns "cannot be cancelled" naming the status cancelled and changes
\* neither stock nor the item, whose quantity was restored exactly once.
C5_IdempotentCancel ==
  [][\A i \in ItemIds :
       ( /\ last = [op |-> "cancel_order_item",
                    ret |-> [kind |-> "Cancelled", order_item_id |-> i]]
         /\ cancel_order_item(i) )
       => /\ last'.ret = [kind |-> "CannotCancel", status |-> "cancelled"]
          /\ offering_quantity' = offering_quantity
          /\ order_items' = order_items
          /\ credited[i] = 1
          /\ credited'[i] = 1]_vars

\* C5 witness: the second cancellation has been refused and the item's
\* quantity has been restored once.
C5_Witness ==
  /\ last = [op |-> "cancel_order_item",
             ret |-> [kind |-> "CannotCancel", status |-> "cancelled"]]
  /\ \E i \in ItemIds :
       /\ order_items[i].order_status = "cancelled"
       /\ credited[i] = 1
       /\ offering_quantity[order_items[i].offering_id] = InitialStock

\* C6: cancel_order_item on an item that is not pending returns a message
\* naming its status and leaves items and stock unchanged; on a pending item
\* it sets the status to cancelled and adds the quantity back to the stock.
C6_CancelOnlyFromPending ==
  [][\A i \in ItemIds :
       cancel_order_item(i) =>
         IF order_items[i].order_status # "pending"
         THEN /\ last'.ret = [kind |-> "CannotCancel",
                              status |-> order_items[i].order_status]
              /\ order_items' = order_items
              /\ offering_quantity' = offering_quantity
         ELSE /\ last'.ret = [kind |-> "Cancelled", order_item_id |-> i]
              /\ order_items'[i].order_status = "cancelled"
              /\ order_items'[i].quantity = order_items[i].quantity
              /\ \A j \in ItemIds \ {i} : order_items'[j] = order_items[j]
              /\ offering_quantity' =
                   [offering_quantity EXCEPT ![order_items[i].offering_id] =
                      @ + order_items[i].quantity]]_vars

\* C6 witness: a cancellation of a served item has been refused.
C6_Witness ==
  /\ last = [op |-> "cancel_order_item",
             ret |-> [kind |-> "CannotCancel", status |-> "served"]]
  /\ \E i \in ItemIds : order_items[i].order_status = "served" /\ credited[i] = 0

\* C7: a placeOrder whose quantity does not exceed the stock adds exactly one
\* pending item with the given order, offering and quantity, one modification
\* per resolved removable ingredient, and takes exactly the quantity off the
\* stock, all in one step.
C7_PlaceAllOrNothing ==
  [][\A order_id \in OrderIds, item_name \in ItemNames, quantity \in QuantityInputs,
        in \in PlaceInputs :
       ( /\ \E o \in OfferingsNamed(item_name) : quantity <= offering_quantity[o]
         /\ placeOrder(order_id, item_name, quantity,
                       in.special_instructions, in.ingredients_to_exclude) )
       => LET o == CHOOSE x \in OfferingsNamed(item_name) : TRUE
              n == Len(order_items) + 1
              removable == ResolvedExclusions[o, in].removable
          IN /\ Len(order_items') = n
             /\ SubSeq(order_items', 1, n - 1) = order_items
             /\ order_items'[n].order_id = order_id
             /\ order_items'[n].offering_id = o
             /\ order_items'[n].quantity = quantity
             /\ order_items'[n].order_status = "pending"
             /\ Len(modifications') = Len(modifications) + Len(removable)
             /\ SubSeq(modifications', 1, Len(modifications)) = modifications
             /\ \A k \in 1..Len(removable) :
                  modifications'[Len(modifications) + k] =
                    [order_item_id |-> n,
                     ingredient_id_to_remove |-> removable[k].ingredient_id]
             /\ offering_quantity' =
                  [offering_quantity EXCEPT ![o] = @ - quantity]
             /\ last'.ret.kind = "Placed"
             /\ last'.ret.order_item_id = n]_vars

\* C7 witness: an order with an inferred exclusion has been placed and the
\* stock has gone down by its quantity.
C7_Witness ==
  /\ last.op = "placeOrder"
  /\ last.ret.kind = "Placed"
  /\ last.ret.applied_removals = <<Onions>>
  /\ Len(order_items) = 1
  /\ order_items[1].quantity = MaxQty
  /\ offering_quantity[1] = InitialStock - MaxQty
  /\ modifications = <<[order_item_id |-> 1, ingredient_id_to_remove |-> 1]>>

\* C8: a placeOrder that asks for more than the stock returns a message that
\* states the stock and changes no stock, no item and no modification.
C8_InsufficientStockIsNoOp ==
  [][\A order_id \in OrderIds, item_name \in ItemNames, quantity \in QuantityInputs,
        in \in PlaceInputs :
       ( /\ \E o \in OfferingsNamed(item_name) : quantity > offering_quantity[o]
         /\ placeOrder(order_id, item_name, quantity,
                       in.special_instructions, in.ingredients_to_exclude) )
       => LET o == CHOOSE x \in OfferingsNamed(item_name) : TRUE
          IN /\ last'.ret = [kind |-> "InsufficientStock", requested |-> quantity,
                             name |-> item_name, in_stock |-> offering_quantity[o]]
             /\ offering_quantity' = offering_quantity
             /\ order_items' = order_items
             /\ modifications' = modifications]_vars

\* C8 witness: after one placement, a second one for more than what is left
\* has been refused with the remaining stock in the message.
C8_Witness ==
  /\ last.op = "placeOrder"
  /\ last.ret.kind = "InsufficientStock"
  /\ Len(order_items) = 1
  /\ order_items[1].order_status = "pending"
  /\ last.ret.in_stock = InitialStock - order_items[1].quantity
  /\ last.ret.requested > last.ret.in_stock
  /\ last.ret.in_stock > 0

\* the edges of the status machine
StatusEdges ==
  { <<"pending", "preparing">>, <<"preparing", "served">>, <<"pending", "cancelled">>,
    <<"pending", "paid">>, <<"preparing", "paid">>, <<"served", "paid">>,
    <<"paid", "paid-completed">>, <<"cancelled", "cancelled-completed">> }

\* C9 as claimed: over all operations, every change of an existing item's
\* status follows an edge of the status machine.
C9_StatusEdges ==
  [][\A i \in ItemIds :
       order_items'[i].order_status # order_items[i].order_status
         => <<order_items[i].order_status, order_items'[i].order_status>>
              \in StatusEdges]_vars

\* position of a status the daemon handles in pending < preparing < served
Rank(order_status) ==
  IF order_status = "pending" THEN 0
  ELSE IF order_status = "preparing" THEN 1
  ELSE 2

\* C10: an invocation of refresh_order_statuses never moves an item backward
\* in pending < preparing < served and leaves every item that is neither
\* pending nor preparing exactly as it was.
C10_DaemonMonotone ==
  [][\A order_id \in OptionalOrders :
       refresh_order_statuses(order_id) =>
         \A i \in ItemIds :
           /\ order_items[i].order_status \in {"pending", "preparing", "served"}
                => /\ order_items'[i].order_status \in {"pending", "preparing", "served"}
                   /\ Rank(order_items'[i].order_status)
                        >= Rank(order_items[i].order_status)
           /\ order_items[i].order_status \notin {"pending", "preparing"}
                => order_items'[i] = order_items[i]]_vars

\* C10 witness: an invocation has advanced one item while a served item and
\* nothing else was there to advance.
C10_Witness ==
  /\ last = [op |-> "refresh_order_statuses", ret |-> [kind |-> "Count", count |-> 1]]
  /\ \E i, j \in ItemIds :
       /\ order_items[i].order_status = "served"
       /\ order_items[i].since_update = OneMinute
       /\ order_items[j].order_status = "preparing"
       /\ order_items[j].since_update = 0

\* C11 as claimed: update_order_item_quantity with a positive quantity on an
\* item that is not pending leaves that item as it was and, when the stock
\* suffices, adds exactly one pending item of the same order and offering
\* with the new quantity and takes that quantity off the stock.
C11_UpdateAppendsNewItem ==
  [][\A i \in ItemIds, n \in PositiveQuantities :
       ( /\ order_items[i].order_status # "pending"
         /\ Len(order_items) < MaxItems
         /\ update_order_item_quantity(i, n) )
       => LET o == order_items[i].offering_id
              new_id == Len(order_items) + 1
          IN /\ order_items'[i] = order_items[i]
             /\ n <= offering_quantity[o] =>
                  /\ Len(order_items') = new_id
                  /\ order_items'[new_id].order_id = order_items[i].order_id
                  /\ order_items'[new_id].offering_id = o
                  /\ order_items'[new_id].quantity = n
                  /\ order_items'[new_id].order_status = "pending"
                  /\ offering_quantity' = [offering_quantity EXCEPT ![o] = @ - n]]_vars

\* C12: update_order_item_quantity with quantity 0 does what cancel_order_item
\* does, for every item id and status: the same message, a pending item
\* cancelled with its quantity back in stock, any other item and the stock
\* unchanged, and no item added.
C12_UpdateZeroIsCancel ==
  [][\A i \in ItemIdInputs :
       update_order_item_quantity(i, 0) =>
         /\ Len(order_items') = Len(order_items)
         /\ modifications' = modifications
         /\ IF i \notin ItemIds
            THEN /\ last'.ret = ValueError("OrderItem", i)
                 /\ order_items' = order_items
                 /\ offering_quantity' = offering_quantity
            ELSE IF order_items[i].order_status # "pending"
            THEN /\ last'.ret = [kind |-> "CannotCancel",
                                 status |-> order_items[i].order_status]
                 /\ order_items' = order_items
                 /\ offering_quantity' = offering_quantity
            ELSE /\ last'.ret = [kind |-> "Cancelled", order_item_id |-> i]
                 /\ order_items'[i].order_status = "cancelled"
                 /\ order_items'[i].quantity = order_items[i].quantity
                 /\ \A j \in ItemIds \ {i} : order_items'[j] = order_items[j]
                 /\ offering_quantity' =
                      [offering_quantity EXCEPT ![order_items[i].offering_id] =
                         @ + order_items[i].quantity]]_vars

\* C12 witness: an update to 0 has cancelled a pending item of quantity 2 and
\* the stock is whole again.
C12_Witness ==
  /\ last.op = "update_order_item_quantity"
  /\ last.ret.kind = "Cancelled"
  /\ \E i \in ItemIds :
       /\ last.ret.order_item_id = i
       /\ order_items[i].order_status = "cancelled"
       /\ order_items[i].quantity = MaxQty
       /\ credited[i] = 1
       /\ offering_quantity[order_items[i].offering_id] = InitialStock

\* C13: update_order_item_quantity with a positive quantity n on a pending
\* item of quantity c succeeds whenever n <= c or the stock is at least n - c;
\* the item's quantity becomes n, the stock changes by -(n - c), and stock
\* plus item quantity is what it was.
C13_UpdatePendingQuantity ==
  [][\A i \in ItemIds, n \in PositiveQuantities :
       ( /\ order_items[i].order_status = "pending"
         /\ update_order_item_quantity(i, n) )
       => LET c == order_items[i].quantity
              o == order_items[i].offering_id
          IN (n <= c \/ offering_quantity[o] >= n - c) =>
               /\ last'.ret = [kind |-> "Updated", order_item_id |-> i,
                               new_quantity |-> n]
               /\ order_items'[i].quantity = n
               /\ order_items'[i].order_status = "pending"
               /\ \A j \in ItemIds \ {i} : order_items'[j] = order_items[j]
               /\ Len(order_items') = Len(order_items)
               /\ offering_quantity' =
                    [offering_quantity EXCEPT ![o] = @ - (n - c)]
               /\ offering_quantity'[o] + order_items'[i].quantity
                    = offering_quantity[o] + c]_vars

\* C13 witness: an update has left a pending item with the largest quantity
\* and taken the last of the stock, next to another item.
C13_Witness ==
  /\ last.op = "update_order_item_quantity"
  /\ last.ret.kind = "Updated"
  /\ last.ret.new_quantity = MaxQty
  /\ Len(order_items) = 2
  /\ \E i \in ItemIds :
       /\ last.ret.order_item_id = i
       /\ order_items[i].order_status = "pending"
       /\ order_items[i].quantity = MaxQty
       /\ offering_quantity[order_items[i].offering_id] = 0
       /\ \E j \in ItemIds \ {i} :
            /\ order_items[j].offering_id = order_items[i].offering_id
            /\ order_items[j].order_status = "cancelled"

\* C14: payment selects the items of the order, of the named offerings when
\* names are given, sets every selected item that is not paid to paid and
\* changes nothing else; it returns "no items found" when nothing matched,
\* "already paid" when every selected item was paid, and otherwise the number
\* of items it changed; the same call made again where items matched changes
\* nothing and returns "already paid" (where nothing matched, "no items
\* found" again).
C14_PaymentOutcomes ==
  [][last'.op = "payment" =>
     \A order_id \in OrderIds, item_names \in ItemNameFilters :
       payment(order_id, item_names) =>
         LET sel == {i \in ItemIds :
                       /\ order_items[i].order_id = order_id
                       /\ item_names # {} =>
                            OfferingName[order_items[i].offering_id] \in item_names}
             unpaid == {i \in sel : order_items[i].order_status # "paid"}
         IN /\ Len(order_items') = Len(order_items)
            /\ offering_quantity' = offering_quantity
            /\ \A i \in sel : order_items'[i].order_status = "paid"
            /\ \A i \in ItemIds \ unpaid : order_items'[i] = order_items[i]
            /\ \A i \in unpaid :
                 /\ order_items'[i].quantity = order_items[i].quantity
                 /\ order_items'[i].order_id = order_items[i].order_id
                 /\ order_items'[i].offering_id = order_items[i].offering_id
            /\ last'.ret =
                 IF sel = {} THEN [kind |-> "NoItemsFound"]
                 ELSE IF unpaid = {} THEN [kind |-> "AlreadyPaid"]
                 ELSE [kind |-> "PaymentSuccessful", count |-> Cardinality(unpaid)]
            /\ PaidItems(order_id, item_names)' = order_items'
            /\ PaymentReturn(order_id, item_names)' =
                 IF sel = {} THEN [kind |-> "NoItemsFound"]
                 ELSE [kind |-> "AlreadyPaid"]]_vars

\* C14 witness: a payment for one order found its only item paid already,
\* while the other order's item of the same offering is still unpaid.
C14_Witness ==
  /\ last = [op |-> "payment", ret |-> [kind |-> "AlreadyPaid"]]
  /\ \E i, j \in ItemIds :
       /\ order_items[i].order_id # order_items[j].order_id
       /\ order_items[i].offering_id = order_items[j].offering_id
       /\ order_items[i].order_status = "paid"
       /\ paid_marks[i] = 1
       /\ order_items[j].order_status = "pending"
       /\ paid_marks[j] = 0

\* the statuses receipt leaves out
ReceiptExcluded(include_paid) ==
  IF include_paid
  THEN {"cancelled", "cancelled-completed", "paid-completed"}
  ELSE {"cancelled", "cancelled-completed", "paid-completed", "paid"}

\* C15: receipt returns exactly the items of the order, of the named
\* offerings when names are given, whose status after the refresh is not
\* cancelled, not cancelled-completed, not paid-completed and, unless
\* include_paid is set, not paid.
C15_ReceiptSelection ==
  \A order_id \in OrderIds, item_names \in ItemNameFilters, include_paid \in BOOLEAN :
    LET ret == ReceiptReturn(order_id, item_names, include_paid, TRUE)
        plain == ReceiptReturn(order_id, item_names, include_paid, FALSE)
        after == RefreshedItems(Some(order_id))
        expected ==
          {i \in ItemIds :
             /\ after[i].order_id = order_id
             /\ item_names # {} => OfferingName[after[i].offering_id] \in item_names
             /\ after[i].order_status \notin ReceiptExcluded(include_paid)}
    IN /\ {e.order_item_id : e \in ret.items} = expected
       /\ {e.order_item_id : e \in plain.items} = expected
       /\ Cardinality(ret.items) = Cardinality(expected)
       /\ Cardinality(plain.items) = Cardinality(expected)
       /\ \A e \in ret.items :
            /\ e.status = after[e.order_item_id].order_status
            /\ e.quantity = after[e.order_item_id].quantity
            /\ e.name = OfferingName[after[e.order_item_id].offering_id]

\* C15 witness: a receipt with include_paid lists the order's paid item and
\* leaves out its paid-completed one.
C15_Witness ==
  /\ last.op = "receipt"
  /\ \E i, j \in ItemIds :
       /\ order_items[i].order_id = order_items[j].order_id
       /\ order_items[i].order_status = "paid-completed"
       /\ order_items[j].order_status = "paid"
       /\ {e.order_item_id : e \in last.ret.items} = {j}

\* C16: the total of a receipt is the sum of the unit prices of the rows it
\* lists, one price per row whatever the row's quantity.
C16_ReceiptTotal ==
  \A order_id \in OrderIds, item_names \in ItemNameFilters, options \in ReceiptOptions :
    LET ret == ReceiptReturn(order_id, item_names, options.include_paid,
                             options.include_status)
    IN /\ ret.total = 950 * Cardinality({e \in ret.items : e.name = "Margherita"})
                        + 300 * Cardinality({e \in ret.items : e.name = "Cola"})
       /\ \A e \in ret.items : e.value = IF e.name = "Margherita" THEN 950 ELSE 300

\* C16 witness: a receipt lists a row of quantity 2 and a row of quantity 1
\* and its total is the two unit prices.
C16_Witness ==
  /\ last.op = "receipt"
  /\ \E e1, e2 \in last.ret.items :
       /\ e1.quantity = 2
       /\ e2.quantity = 1
       /\ e1.name # e2.name
       /\ last.ret.total = e1.value + e2.value
       /\ Cardinality(last.ret.items) = 2

\* C17: in every reachable state every modification references an ingredient
\* that is associated with its order item's offering by an association that
\* is removable, whether the exclusions were listed or inferred; a locked
\* ingredient or one the offering does not have is never referenced.
C17_ModificationsAreRemovable ==
  \A k \in 1..Len(modifications) :
    LET m == modifications[k]
    IN /\ m.order_item_id \in ItemIds
       /\ LET assocs == OfferingIngredients(order_items[m.order_item_id].offering_id)
          IN \E a \in 1..Len(assocs) :
               /\ assocs[a].ingredient_id = m.ingredient_id_to_remove
               /\ assocs[a].is_removable

\* C17 witness: one item carries the modification inferred from its
\* instructions, the other the one modification its explicit list allows,
\* the list having named a locked ingredient and an unknown one as well.
C17_Witness ==
  /\ Len(modifications) = 2
  /\ modifications[1] = [order_item_id |-> 1, ingredient_id_to_remove |-> 1]
  /\ modifications[2] = [order_item_id |-> 2, ingredient_id_to_remove |-> 3]
  /\ last.op = "placeOrder"
  /\ last.ret.kind = "Placed"
  /\ last.ret.skipped_locked = <<Basil>>
  /\ last.ret.skipped_missing = << <<"h","a","m">> >>

\* the normalised names of the entries of the three lists of a result;
\* removable holds associations, missing and locked hold names
NormalizedRemovable(ret) ==
  [i \in 1..Len(ret.removable) |-> _normalize_ingredient_name(ret.removable[i].name)]

NormalizedMissing(ret) ==
  [i \in 1..Len(ret.missing) |-> _normalize_ingredient_name(ret.missing[i])]

NormalizedLocked(ret) ==
  [i \in 1..Len(ret.locked) |-> _normalize_ingredient_name(ret.locked[i])]

Range(seq) == {seq[i] : i \in 1..Len(seq)}

Occurrences(seq, x) == Cardinality({i \in 1..Len(seq) : seq[i] = x})

\* C18: the lists a classification returns are pairwise disjoint, every
\* requested name that is not empty or blank stands, taken up to
\* normalisation, in exactly one of the three lists and exactly once there,
\* and no empty name and no name that was not requested stands in any.
C18_ClassificationIsPartition ==
  last.op = "_classify_removal_requests" =>
    LET r == NormalizedRemovable(last.ret)
        m == NormalizedMissing(last.ret)
        l == NormalizedLocked(last.ret)
        requested == {_normalize_ingredient_name(last.ingredients_to_exclude[i]) :
                        i \in 1..Len(last.ingredients_to_exclude)} \ {<<>>}
    IN /\ Range(r) \cap Range(m) = {}
       /\ Range(r) \cap Range(l) = {}
       /\ Range(m) \cap Range(l) = {}
       /\ Range(r) \cup Range(m) \cup Range(l) = requested
       /\ \A n \in requested :
            Occurrences(r, n) + Occurrences(m, n) + Occurrences(l, n) = 1

\* C19: a request made only of spellings of one removable ingredient of the
\* offering, however many and in whatever case and spacing, is classified as
\* that ingredient's association once in removable, nothing missing and
\* nothing locked.
C19_SpellingsResolveOnce ==
  last.op = "_classify_removal_requests" /\ last.offering = 1 =>
    \A a \in 1..Len(OfferingIngredients(1)) :
      LET assoc == OfferingIngredients(1)[a]
          spellings == IF assoc.name = Onions THEN OnionsSpellings
                       ELSE IF assoc.name = OliveOil THEN OliveOilSpellings
                       ELSE {}
      IN /\ last.ingredients_to_exclude # <<>>
         /\ Range(last.ingredients_to_exclude) \subseteq spellings
         => last.ret = [removable |-> <<assoc>>, missing |-> <<>>, locked |-> <<>>]

\* C19 witness: three different spellings of Olive Oil were requested and the
\* result holds its association once.
C19_Witness ==
  /\ last.op = "_classify_removal_requests"
  /\ last.offering = 1
  /\ Len(last.ingredients_to_exclude) = 3
  /\ Range(last.ingredients_to_exclude) = OliveOilSpellings
  /\ Len(last.ret.removable) = 1
  /\ last.ret.removable[1].ingredient_id = 3

TenTools ==
  {"get_categories", "get_menu", "get_allergens", "place_order",
   "cancel_order_item", "update_order_item_quantity", "get_receipt",
   "process_payment", "get_faq_keys", "get_faq_value"}

\* C21: dispatching a name that is not one of the ten tools returns
\* "Unknown tool: <name>" at once, calls no operation and leaves stock, order
\* items, statuses and modifications as they were; that answer is never
\* given for one of the ten.
C21_UnknownToolIsNoOp ==
  [][ /\ \A tool_name \in ToolNames \ TenTools :
           \A tool_input \in ToolInputs(tool_name) :
             execute_tool_call(tool_name, tool_input)
             => /\ last'.op = "_execute_tool"
                /\ last'.ret = [kind |-> "str",
                                of |-> [kind |-> "UnknownTool",
                                        tool_name |-> tool_name]]
                /\ UNCHANGED <<offering_quantity, order_items, modifications>>
      /\ ( /\ last'.op = "_execute_tool"
           /\ last'.ret.kind = "str"
           /\ last'.ret.of.kind = "UnknownTool" )
         => last'.tool_name \notin TenTools ]_vars

\* C21 witness: with two items on the order an unknown name was dispatched
\* and answered.
C21_Witness ==
  /\ Len(order_items) = 2
  /\ last.op = "_execute_tool"
  /\ last.tool_name = "make_coffee"
  /\ last.ret.of.kind = "UnknownTool"

\* C22: _execute_tool always returns a string: whatever a wrapper raises, a
\* missing key, an unknown offering or order item, an error of the mapping,
\* is turned into one by the next step and goes no further; and the call of
\* a wrapper that raises leaves stock, order items, statuses and
\* modifications exactly as they were.
C22_DispatchReturnsString ==
  [][ /\ last'.op = "_execute_tool" => last'.ret.kind = "str"
      /\ InTool => /\ last'.op = "_execute_tool"
                   /\ UNCHANGED <<offering_quantity, order_items, modifications>>
      /\ (~InTool /\ last'.op \in Operations /\ Raised(last'.ret))
         => UNCHANGED <<offering_quantity, order_items, modifications>> ]_vars

\* C22 witness: with an item on the order a call for an order item that does
\* not exist has been answered with the stringified ValueError.
C22_Witness ==
  /\ Len(order_items) >= 1
  /\ last.op = "_execute_tool"
  /\ last.tool_name = "cancel_order_item"
  /\ last.ret.kind = "str"
  /\ last.ret.of.kind = "ErrorExecuting"
  /\ last.ret.of.exception.kind = "ValueError"

\* C23: in every reachable state every order item has a quantity of at least
\* 1, whatever integer quantities place_order and update_order_item_quantity
\* were given through the tool interface.
C23_QuantityAtLeastOne ==
  \A i \in ItemIds : order_items[i].quantity >= 1

\* C24: in every reachable state the stock of every offering is at least 0.
C24_StockNeverNegative ==
  \A o \in Offerings : offering_quantity[o] >= 0

\* C25: a step of refresh_order_statuses, payment, receipt or
\* finalize_previous_orders leaves the stock of every offering and the
\* quantity of every order item as they were and adds no item, whatever
\* statuses it changes; a step that changes some stock is a placement, a
\* cancellation of a pending item or a quantity update of a pending item.
C25_StockFrame ==
  [][ /\ last'.op \in {"refresh_order_statuses", "payment", "receipt",
                       "finalize_previous_orders"}
         => /\ offering_quantity' = offering_quantity
            /\ Len(order_items') = Len(order_items)
            /\ \A i \in ItemIds : order_items'[i].quantity = order_items[i].quantity
      /\ offering_quantity' # offering_quantity
         => \/ last'.ret.kind = "Placed"
            \/ /\ last'.ret.kind = "Cancelled"
               /\ order_items[last'.ret.order_item_id].order_status = "pending"
            \/ /\ last'.ret.kind = "Updated"
               /\ order_items[last'.ret.order_item_id].order_status = "pending" ]_vars

\* C25 witness: an item of quantity 2 took all of the stock, was paid and
\* archived, and the stock and its quantity are as the placement left them.
C25_Witness ==
  /\ last.op = "finalize_previous_orders"
  /\ last.ret.count >= 1
  /\ \E i \in ItemIds :
       /\ order_items[i].order_status = "paid-completed"
       /\ order_items[i].quantity = 2
       /\ offering_quantity[order_items[i].offering_id] = InitialStock - 2

\* the order scopes refresh_order_statuses is called with
RefreshScopes == {None} \cup {Some(o) : o \in OneOrder}

\* C26: one refresh_order_statuses moves an item by one step at most: an
\* item pending before is pending or preparing after, however stale it was,
\* and the advance stamps its update time; an item becomes served only from
\* preparing, in a step before which a whole minute had passed since that
\* stamp.
C26_OneStepPerRefresh ==
  [][ /\ last'.op = "refresh_order_statuses"
         => /\ Len(order_items') = Len(order_items)
            /\ \A i \in ItemIds :
                 /\ order_items[i].order_status = "pending"
                    => order_items'[i].order_status \in {"pending", "preparing"}
                 /\ order_items'[i].order_status # order_items[i].order_status
                    => /\ Rank(order_items'[i].order_status)
                            = Rank(order_items[i].order_status) + 1
                       /\ order_items'[i].since_update = 0
      /\ \A i \in ItemIds :
           ( /\ i <= Len(order_items')
             /\ order_items'[i].order_status = "served"
             /\ order_items[i].order_status # "served" )
           => /\ order_items[i].order_status = "preparing"
              /\ order_items[i].since_update >= OneMinute ]_vars

\* C26 witness: an item that a refresh moved to preparing has since grown a
\* minute old and a second refresh has moved it to served.
C26_Witness ==
  /\ last.op = "refresh_order_statuses"
  /\ last.ret.count = 1
  /\ \E i \in ItemIds :
       /\ order_items[i].order_status = "served"
       /\ order_items[i].since_update = 0

\* C27: refresh_order_statuses moves exactly the items in its scope that are
\* pending or preparing and whose last update is at least one minute old,
\* pending to preparing and preparing to served, and stamps their update
\* time; every other item is unchanged; it returns the number of items moved.
C27_RefreshAdvancesExactlyStale ==
  [][ last'.op = "refresh_order_statuses" =>
        \A order_id \in RefreshScopes :
          refresh_order_statuses(order_id)
          => /\ \A i \in ItemIds :
                  LET item == order_items[i]
                      stale == item.since_update >= OneMinute
                  IN order_items'[i] =
                       IF item.order_status = "pending" /\ stale
                         THEN [item EXCEPT !.order_status = "preparing",
                                           !.since_update = 0]
                       ELSE IF item.order_status = "preparing" /\ stale
                         THEN [item EXCEPT !.order_status = "served",
                                           !.since_update = 0]
                       ELSE item
             /\ last'.ret.count =
                  Cardinality({i \in ItemIds :
                                 order_items'[i].order_status
                                   # order_items[i].order_status}) ]_vars

\* C27 witness: of two items one was stale and in preparation and was moved
\* to served, the other was fresh and was left pending; the count is 1.
C27_Witness ==
  /\ last.op = "refresh_order_statuses"
  /\ last.ret.count = 1
  /\ Len(order_items) = 2
  /\ \E i, j \in ItemIds :
       /\ order_items[i].order_status = "served"
       /\ order_items[i].since_update = 0
       /\ order_items[j].order_status = "pending"
       /\ order_items[j].since_update = 0

\* the archived statuses
Archived == {"paid-completed", "cancelled-completed"}

\* C28: finalize_previous_orders rewrites every paid item to paid-completed
\* and every cancelled item to cancelled-completed, leaves every other item
\* as it was and returns the number of items rewritten; and a step in which
\* an item comes to an archived status is a step of finalize_previous_orders.
C28_FinalizeArchives ==
  [][ /\ (last'.op = "finalize_previous_orders" /\ finalize_previous_orders)
         => /\ \A i \in ItemIds :
                 LET item == order_items[i]
                 IN order_items'[i] =
                      IF item.order_status = "paid"
                        THEN [item EXCEPT !.order_status = "paid-completed",
                                          !.since_update = 0]
                      ELSE IF item.order_status = "cancelled"
                        THEN [item EXCEPT !.order_status = "cancelled-completed",
                                          !.since_update = 0]
                      ELSE item
            /\ last'.ret.count =
                 Cardinality({i \in ItemIds :
                                order_items[i].order_status \in {"paid", "cancelled"}})
      /\ \A i \in 1..Len(order_items') :
           ( /\ order_items'[i].order_status \in Archived
             /\ i \in ItemIds => order_items[i].order_status
                                   # order_items'[i].order_status )
           => last'.op = "finalize_previous_orders" ]_vars

\* C28 witness: a sweep has archived a paid and a cancelled item at once.
C28_Witness ==
  /\ last.op = "finalize_previous_orders"
  /\ last.ret.count = 2
  /\ \E i, j \in ItemIds :
       /\ order_items[i].order_status = "paid-completed"
       /\ order_items[j].order_status = "cancelled-completed"

\* C29: once the status of an item is paid-completed or cancelled-completed,
\* no step of any operation changes it.
C29_ArchivedIsTerminal ==
  [][\A i \in ItemIds :
       order_items[i].order_status \in Archived
         => order_items'[i].order_status = order_items[i].order_status]_vars

\* C30: the refresh a receipt for an order runs advances every item of that
\* order that is pending or preparing and a minute old, so the view shows
\* none of them in the status it had before the call, and it leaves the
\* items of every other order, their status and update time, as they were.
C30_ReceiptRefreshIsScoped ==
  \A order_id \in OrderIds :
    LET refreshed == RefreshedItems(Some(order_id))
        view == ReceiptReturn(order_id, {}, TRUE, TRUE).items
    IN /\ \A i \in ItemIds :
            IF order_items[i].order_id = order_id
            THEN ( /\ order_items[i].order_status \in {"pending", "preparing"}
                   /\ order_items[i].since_update >= OneMinute )
                 => /\ refreshed[i].order_status # order_items[i].order_status
                    /\ \A e \in view :
                         e.order_item_id = i
                           => e.status # order_items[i].order_status
            ELSE refreshed[i] = order_items[i]
       /\ \A e \in view :
            /\ order_items[e.order_item_id].order_id = order_id
            /\ e.status = refreshed[e.order_item_id].order_status

\* C30 witness: a receipt has just advanced an item of its order, and an item
\* of the other order that is as stale is still pending.
C30_Witness ==
  /\ last.op = "receipt"
  /\ \E i, j \in ItemIds :
       /\ order_items[i].order_id # order_items[j].order_id
       /\ order_items[i].order_status = "preparing"
       /\ order_items[i].since_update = 0
       /\ order_items[j].order_status = "pending"
       /\ order_items[j].since_update >= OneMinute
       /\ \E e \in last.ret.items :
            e.order_item_id = i /\ "status" \in DOMAIN e /\ e.status = "preparing"

\* C31: update_order_item_quantity that would raise a pending item from c to
\* n while the stock is below n - c answers that the quantity cannot be
\* increased, and one with a negative quantity answers that the quantity
\* must not be negative; either leaves every order item, every stock and the
\* modifications as they were.
C31_RefusedUpdateIsNoOp ==
  [][ last'.op = "update_order_item_quantity" =>
        \A i \in ItemIdInputs, n \in QuantityInputs :
          ( /\ \/ n < 0
               \/ /\ i \in ItemIds
                  /\ order_items[i].order_status = "pending"
                  /\ n > order_items[i].quantity
                  /\ offering_quantity[order_items[i].offering_id]
                       < n - order_items[i].quantity
            /\ update_order_item_quantity(i, n) )
          => /\ UNCHANGED <<offering_quantity, order_items, modifications>>
             /\ last'.ret.kind = IF n < 0 THEN "QuantityMustBeNonNegative"
                                 ELSE "CannotIncrease"
             /\ n >= 0 => last'.ret.in_stock
                            = offering_quantity[order_items[i].offering_id] ]_vars

\* C31 witness: an increase of a pending item was refused with nothing left
\* in stock, and the item still has its quantity of 1.
C31_Witness ==
  /\ last.op = "update_order_item_quantity"
  /\ last.ret.kind = "CannotIncrease"
  /\ last.ret.in_stock = 0
  /\ \E i \in ItemIds :
       /\ order_items[i].order_status = "pending"
       /\ order_items[i].quantity = 1
       /\ offering_quantity[order_items[i].offering_id] = 0

\* C32: no step removes an order item: the ids that exist before a step exist
\* after it, every item keeps its order and its offering, and a step that
\* cancels an item changes, of the order items and their modifications, only
\* that item's status and the time of its last update.
C32_ItemsAreNeverRemoved ==
  [][ /\ Len(order_items') >= Len(order_items)
      /\ \A i \in ItemIds :
           /\ order_items'[i].order_id = order_items[i].order_id
           /\ order_items'[i].offering_id = order_items[i].offering_id
      /\ ( /\ last'.op \in {"cancel_order_item", "update_order_item_quantity"}
           /\ last'.ret.kind = "Cancelled"
           /\ order_items[last'.ret.order_item_id].order_status = "pending" )
         => /\ order_items' =
                 [order_items EXCEPT ![last'.ret.order_item_id] =
                    [@ EXCEPT !.order_status = "cancelled", !.since_update = 0]]
            /\ modifications' = modifications ]_vars

\* C32 witness: the second of two items, one of quantity 2 of the second
\* offering, has been cancelled and both items are there.
C32_Witness ==
  /\ last.op = "cancel_order_item"
  /\ last.ret.kind = "Cancelled"
  /\ last.ret.order_item_id = 2
  /\ Len(order_items) = 2
  /\ order_items[2].order_status = "cancelled"
  /\ order_items[2].offering_id = 2
  /\ order_items[2].quantity = 2

\* C33: while the daemon keeps refreshing and time keeps passing, an item
\* whose quantity is, from some point on, never updated again does not stay
\* pending or preparing for ever: unless it is cancelled or paid it comes to
\* served.
C33_DaemonConverges ==
  \A i \in 1..MaxItems :
    (<>[][(i \in ItemIds) => (order_items'[i].quantity = order_items[i].quantity)]_vars)
      => ~<>[](i \in ItemIds /\ order_items[i].order_status \in {"pending", "preparing"})

\* C33 witness: an item has gone all the way to served while another order
\* item is still pending.
C33_Witness ==
  /\ last.op = "refresh_order_statuses"
  /\ Len(order_items) = 2
  /\ order_items[1].order_status = "served"
  /\ order_items[2].order_status = "pending"

UncreditedQuantity(offering) ==
  SumQuantities({i \in ItemsOf(offering) : credited[i] = 0})

\* C35: when two cancellations of two distinct items of one offering have
\* both committed, the stock of the offering holds both credits (it is the
\* initial stock less the items not cancelled) whatever the interleaving.
C35_BothCreditsKept ==
  \A i \in ItemIds, j \in ItemIds :
    ( /\ i < j
      /\ order_items[i].offering_id = order_items[j].offering_id
      /\ credited[i] >= 1
      /\ credited[j] >= 1 )
    => offering_quantity[order_items[i].offering_id]
         = InitialStock - UncreditedQuantity(order_items[i].offering_id)

\* C36: an item whose quantity has been credited back to the stock is never
\* in status preparing or served.
C36_CreditedIsNeverAdvanced ==
  \A i \in ItemIds :
    credited[i] >= 1 => order_items[i].order_status \notin {"preparing", "served"}

\* C37: once a payment has committed an item as paid, no step of the refresh
\* daemon or of any other transaction gives it another status.
C37_PaidIsNotOverwritten ==
  [][ \A i \in ItemIds :
        order_items[i].order_status = "paid" => order_items'[i].order_status = "paid" ]_vars

\* C38: no step changes the quantity of an order item whose status is not
\* pending; no step returns an item to pending, so once an item has left
\* pending its quantity stays what it was.
C38_QuantityFixedAfterPending ==
  [][ \A i \in ItemIds :
        order_items[i].order_status # "pending"
          => /\ order_items'[i].quantity = order_items[i].quantity
             /\ order_items'[i].order_status # "pending" ]_vars

\* C38 witness: a quantity update was asked for an item of quantity 2 that
\* was served and paid; the item keeps its quantity and, the stock being
\* spent, nothing is appended.
C38_Witness ==
  /\ last.op = "update_order_item_quantity"
  /\ last.ret.kind = "InsufficientStock"
  /\ Len(order_items) = 1
  /\ order_items[1].order_status = "paid"
  /\ order_items[1].quantity = 2

\* C39 as claimed: every quantity update of a pending item that reports
\* success leaves the item stamped with the time of the update.
C39_SuccessfulUpdateRestamps ==
  [][ last'.op = "update_order_item_quantity" =>
        \A i \in ItemIds, n \in PositiveQuantities :
          ( /\ order_items[i].order_status = "pending"
            /\ update_order_item_quantity(i, n)
            /\ last'.ret.kind = "Updated" )
          => order_items'[i].since_update = 0 ]_vars

\* C39, amended: a quantity update of a pending item that reports success
\* and changes the quantity leaves the item stamped with the time of the
\* update, and no step advances a pending item stamped less than one minute
\* ago, whenever it was created.
C39_ChangedQuantityRestamps ==
  [][ /\ last'.op = "update_order_item_quantity" =>
           \A i \in ItemIds, n \in PositiveQuantities :
             ( /\ order_items[i].order_status = "pending"
               /\ n # order_items[i].quantity
               /\ update_order_item_quantity(i, n)
               /\ last'.ret.kind = "Updated" )
             => order_items'[i].since_update = 0
      /\ \A i \in ItemIds :
           ( /\ order_items[i].order_status = "pending"
             /\ order_items[i].since_update < OneMinute )
           => order_items'[i].order_status \in {"pending", "cancelled", "paid"} ]_vars

\* C39 witness: a refresh has advanced the second item, at least one minute
\* old, and not the first, older still, whose quantity had been raised to 2
\* less than a minute before.
C39_Witness ==
  /\ last.op = "refresh_order_statuses"
  /\ last.ret.count = 1
  /\ Len(order_items) = 2
  /\ order_items[1].order_status = "pending"
  /\ order_items[1].quantity = 2
  /\ order_items[1].since_update = 0
  /\ order_items[2].order_status = "preparing"

\* C40: a quantity update that appends an item leaves the new item without
\* special instructions and inserts no OrderItemModification, for it or for
\* any other item, whatever the customisation of the original.
C40_AppendedItemIsPlain ==
  [][ ( /\ last'.op = "update_order_item_quantity"
        /\ Len(order_items') = Len(order_items) + 1 )
      => /\ order_items'[Len(order_items')].special_instructions = <<>>
         /\ modifications' = modifications
         /\ last'.ret.applied_removals = <<>> ]_vars

\* C40 witness: the first item was ordered without onions and is in
\* preparation; the update appended a second item, which has no instructions
\* and no modification, while the first keeps both.
C40_Witness ==
  /\ last.op = "update_order_item_quantity"
  /\ last.ret.kind = "Placed"
  /\ Len(order_items) = 2
  /\ order_items[1].order_status = "preparing"
  /\ order_items[1].special_instructions = NoOnionsPlease
  /\ \E m \in 1..Len(modifications) : modifications[m].order_item_id = 1
  /\ order_items[2].special_instructions = <<>>
  /\ \A m \in 1..Len(modifications) : modifications[m].order_item_id # 2

====
